---- MODULE Spec2Model ----
(***************************************************************************)
(* A model of the multi-agent QA system of src/agents (PlannerAgent,       *)
(* ExecutorAgent, VerifierAgent, SupervisorAgent) driven by the message    *)
(* loop MultiAgentQASystem.run_test of src/tests/test_wifi_settings.py,    *)
(* and of the second Executor and Planner of src/multi_agent_qa/agents.    *)
(*                                                                         *)
(* Specifications: Spec is the message loop of run_test; FoldSpec the       *)
(* overall-status fold on lists of statuses; CallSpec single calls of      *)
(* functions (plan synthesis, replan, resolution of a step, tap point,     *)
(* scroll, verification of a step, report of a run, search of an element   *)
(* by criteria, parse_ui_tree of src/utils/android_helper.py) on arguments *)
(* from pools; WifiSpec the message loop with a language model whose       *)
(* answers do not parse, on WiFi screens; AggSpec one SupervisorAgent      *)
(* shared by the threads of several runs; EnvSpec the AndroidEnvWrapper of *)
(* src/multi_agent_qa/main.py; RouteSpec the routing of run_test with      *)
(* agents that may answer with a message to any recipient.                 *)
(*                                                                         *)
(* Python values are modelled as follows.                                  *)
(*   str    a sequence of one-character strings (so that `in`, lower(),    *)
(*          replace(), strip() and split() are computed, not assumed);     *)
(*          strings the code only compares for equality with literals      *)
(*          (message types, recipients, statuses) are TLA+ strings.        *)
(*   dict   a record; a key the dict does not hold is a field the record   *)
(*          does not have, and d.get(k, default) is Get(d, k, default).    *)
(*          The keys "content-desc" and "resource-id" are written          *)
(*          content_desc and resource_id.                                  *)
(*   list   a sequence.                                                    *)
(*   float  confidences are tenths (0.3 is 3, 0.7 is 7).                   *)
(*   an uncaught exception ends the run: outcome holds its class name.     *)
(*                                                                         *)
(* The language-model client (llm_client.generate) and the Android         *)
(* environment (env.observe, env.step) are collaborators outside the       *)
(* repository: their answers are nondeterministic choices from small       *)
(* pools.                                                                  *)
(*                                                                         *)
(* Names a module uses at run time without importing them raise NameError  *)
(* where they are used (json in verifier_agent.py, time in                 *)
(* supervisor_agent.py); a method that is called but not defined raises    *)
(* AttributeError (_execute_type).  The names that occur only in           *)
(* annotations (List, Dict) are taken to resolve, so that the modules      *)
(* load.                                                                   *)
(***************************************************************************)
EXTENDS Integers, Sequences, FiniteSets, TLC

(***************************************************************************)
(* Bounds of the model.                                                    *)
(***************************************************************************)
\* longest plan the language model returns (the built-in plans are as in the source)
MaxPlanLen == 2
\* longest list of statuses handed to the overall-status fold on its own
MaxStatuses == 3

(***************************************************************************)
(* Python str operations.                                                  *)
(***************************************************************************)
UpperChars == <<"A","B","C","D","E","F","G","H","I","J","K","L","M",
                "N","O","P","Q","R","S","T","U","V","W","X","Y","Z">>
LowerChars == <<"a","b","c","d","e","f","g","h","i","j","k","l","m",
                "n","o","p","q","r","s","t","u","v","w","x","y","z">>

\* str.lower() on one character
LowerChar(c) ==
    IF \E i \in 1..Len(UpperChars) : UpperChars[i] = c
    THEN LowerChars[CHOOSE i \in 1..Len(UpperChars) : UpperChars[i] = c]
    ELSE c

\* s.lower()
Lower(s) == [i \in 1..Len(s) |-> LowerChar(s[i])]

\* sub in s
Contains(sub, s) ==
    \E i \in 0..(Len(s) - Len(sub)) : SubSeq(s, i + 1, i + Len(sub)) = sub

\* s.startswith(p)
StartsWith(s, p) == Len(p) <= Len(s) /\ SubSeq(s, 1, Len(p)) = p

\* s.replace(old, ""), old non-empty: occurrences are removed left to right
RECURSIVE Remove(_, _)
Remove(s, old) ==
    IF s = <<>> THEN <<>>
    ELSE IF StartsWith(s, old) THEN Remove(SubSeq(s, Len(old) + 1, Len(s)), old)
    ELSE <<Head(s)>> \o Remove(Tail(s), old)

IsSpace(c) == c = " "

\* s.split(): the maximal runs of non-whitespace characters, in order
RECURSIVE SplitFrom(_, _)
SplitFrom(s, word) ==
    IF s = <<>> THEN (IF word = <<>> THEN <<>> ELSE <<word>>)
    ELSE IF IsSpace(Head(s))
         THEN (IF word = <<>> THEN <<>> ELSE <<word>>) \o SplitFrom(Tail(s), <<>>)
         ELSE SplitFrom(Tail(s), Append(word, Head(s)))

Split(s) == SplitFrom(s, <<>>)

\* s.strip()
RECURSIVE LStrip(_)
LStrip(s) == IF s # <<>> /\ IsSpace(Head(s)) THEN LStrip(Tail(s)) ELSE s

RECURSIVE RStrip(_)
RStrip(s) ==
    IF s # <<>> /\ IsSpace(s[Len(s)]) THEN RStrip(SubSeq(s, 1, Len(s) - 1)) ELSE s

Strip(s) == RStrip(LStrip(s))

\* ' '.join(texts)
RECURSIVE Join(_)
Join(texts) ==
    IF texts = <<>> THEN <<>>
    ELSE IF Len(texts) = 1 THEN texts[1]
    ELSE texts[1] \o <<" ">> \o Join(Tail(texts))

Digits == {"0","1","2","3","4","5","6","7","8","9"}

\* whether float(w) returns: an optional sign, digits with at most one point,
\* at least one digit (exponents, "inf" and "nan" are not in the pools used)
ParsesAsFloat(w) ==
    LET body == IF w # <<>> /\ w[1] \in {"+", "-"} THEN Tail(w) ELSE w
    IN  /\ \A i \in 1..Len(body) : body[i] \in Digits \cup {"."}
        /\ Cardinality({i \in 1..Len(body) : body[i] = "."}) <= 1
        /\ \E i \in 1..Len(body) : body[i] \in Digits

\* d.get(k, default)
Get(d, k, default) == IF k \in DOMAIN d THEN d[k] ELSE default

\* Python's None
NoneVal == <<"None">>

\* bool(v) for a str or None
Truthy(v) == v # NoneVal /\ v # <<>>

(***************************************************************************)
(* VerifierAgent: the fold of per-step statuses and the replanning trigger *)
(***************************************************************************)
\* the statuses _verify_step_outcome documents, and 'UNKNOWN' for a result
\* without a status
Statuses == {"PASSED", "FAILED", "BUG_DETECTED", "UNKNOWN"}

\* [r.get('status', 'UNKNOWN') for r in verification_results]
StatusesOf(verification_results) ==
    [i \in 1..Len(verification_results) |->
        Get(verification_results[i], "status", "UNKNOWN")]

SeqHas(seq, v) == \E i \in 1..Len(seq) : seq[i] = v

\* a fold that answers with the first BUG_DETECTED or FAILED it meets
OverallStatusFirstFound(statuses) ==
    LET found == {i \in 1..Len(statuses) : statuses[i] \in {"BUG_DETECTED", "FAILED"}}
    IN  IF found # {} THEN statuses[CHOOSE i \in found : \A j \in found : i <= j]
        ELSE IF \A i \in 1..Len(statuses) : statuses[i] = "PASSED" THEN "PASSED"
        ELSE "PARTIAL_PASS"

\* a fold that reports a bug only when every status is BUG_DETECTED
OverallStatusBugNeedsAll(statuses) ==
    IF statuses # <<>> /\ \A i \in 1..Len(statuses) : statuses[i] = "BUG_DETECTED"
    THEN "BUG_DETECTED"
    ELSE IF SeqHas(statuses, "FAILED") THEN "FAILED"
    ELSE IF \A i \in 1..Len(statuses) : statuses[i] = "PASSED" THEN "PASSED"
    ELSE "PARTIAL_PASS"

\* a fold that lets FAILED win over BUG_DETECTED
OverallStatusFailedFirst(statuses) ==
    IF SeqHas(statuses, "FAILED") THEN "FAILED"
    ELSE IF SeqHas(statuses, "BUG_DETECTED") THEN "BUG_DETECTED"
    ELSE IF \A i \in 1..Len(statuses) : statuses[i] = "PASSED" THEN "PASSED"
    ELSE "PARTIAL_PASS"

\* the if/elif chain of _determine_overall_status on the list of statuses
OverallStatus(statuses) ==
    IF SeqHas(statuses, "BUG_DETECTED") THEN "BUG_DETECTED"
    ELSE IF SeqHas(statuses, "FAILED") THEN "FAILED"
    ELSE IF \A i \in 1..Len(statuses) : statuses[i] = "PASSED" THEN "PASSED"
    ELSE "PARTIAL_PASS"

\* VerifierAgent._determine_overall_status
DetermineOverallStatus(verification_results) ==
    OverallStatus(StatusesOf(verification_results))

\* the threshold of _needs_replanning, 0.7, in tenths
ReplanConfidence == 7

\* VerifierAgent._needs_replanning
NeedsReplanning(verification_results) ==
    \E i \in 1..Len(verification_results) :
        LET result == verification_results[i]
        IN  \/ Get(result, "needs_replanning", FALSE)
            \/ /\ Get(result, "status", "None") = "FAILED"
               /\ Get(result, "confidence", 0) > ReplanConfidence

(***************************************************************************)
(* VerifierAgent: the rule-based verification of one step                  *)
(***************************************************************************)
S_visible == <<"v","i","s","i","b","l","e">>
S_open == <<"o","p","e","n">>
S_on == <<"o","n">>
S_off == <<"o","f","f">>
S_wifi_is_now_on == <<"w","i","f","i"," ","i","s"," ","n","o","w"," ","o","n">>
S_wifi_is_now_off == <<"w","i","f","i"," ","i","s"," ","n","o","w"," ","o","f","f">>

\* the texts _extract_all_text collects from a node and its descendants: a
\* node's text, then its content-desc, then its children in order
RECURSIVE ExtractTexts(_)
RECURSIVE ExtractChildren(_)
ExtractTexts(node) ==
    (IF Truthy(Get(node, "text", NoneVal)) THEN <<node.text>> ELSE <<>>)
    \o (IF Truthy(Get(node, "content_desc", NoneVal)) THEN <<node.content_desc>> ELSE <<>>)
    \o ExtractChildren(Get(node, "children", <<>>))

ExtractChildren(children) ==
    IF children = <<>> THEN <<>>
    ELSE ExtractTexts(Head(children)) \o ExtractChildren(Tail(children))

\* VerifierAgent._extract_all_text
ExtractAllText(ui_tree) == Join(ExtractTexts(ui_tree))

\* the confidence of the heuristic's FAILED answer, 0.3, in tenths
HeuristicConfidence == 3

HeuristicFailed ==
    [status |-> "FAILED", reason |-> "Could not verify expected outcome",
     confidence |-> HeuristicConfidence]

\* a heuristic that lets through what it has no pattern for
HeuristicVerificationLenient(expected, ui_tree) ==
    LET expected_lower == Lower(expected)
        ui_text == Lower(ExtractAllText(ui_tree))
    IN  IF Contains(S_visible, expected_lower) \/ Contains(S_open, expected_lower)
        THEN LET key_words == Strip(Remove(Remove(expected_lower, S_visible), S_open))
                 words == Split(key_words)
             IN  IF \E i \in 1..Len(words) : Contains(words[i], ui_text)
                 THEN [status |-> "PASSED", reason |-> "Expected content found"]
                 ELSE HeuristicFailed
        ELSE IF Contains(S_on, expected_lower) \/ Contains(S_off, expected_lower)
        THEN IF Contains(S_wifi_is_now_on, expected_lower) /\ Contains(S_on, ui_text)
             THEN [status |-> "PASSED", reason |-> "WiFi toggle is ON"]
             ELSE IF Contains(S_wifi_is_now_off, expected_lower) /\ Contains(S_off, ui_text)
             THEN [status |-> "PASSED", reason |-> "WiFi toggle is OFF"]
             ELSE HeuristicFailed
        ELSE [status |-> "PASSED", reason |-> "Nothing to check"]

\* VerifierAgent._heuristic_verification
HeuristicVerification(expected, ui_tree) ==
    LET expected_lower == Lower(expected)
        ui_text == Lower(ExtractAllText(ui_tree))
    IN  IF Contains(S_visible, expected_lower) \/ Contains(S_open, expected_lower)
        THEN LET key_words == Strip(Remove(Remove(expected_lower, S_visible), S_open))
                 words == Split(key_words)
             IN  IF \E i \in 1..Len(words) : Contains(words[i], ui_text)
                 THEN [status |-> "PASSED", reason |-> "Expected content found"]
                 ELSE HeuristicFailed
        ELSE IF Contains(S_on, expected_lower) \/ Contains(S_off, expected_lower)
        THEN IF Contains(S_wifi_is_now_on, expected_lower) /\ Contains(S_on, ui_text)
             THEN [status |-> "PASSED", reason |-> "WiFi toggle is ON"]
             ELSE IF Contains(S_wifi_is_now_off, expected_lower) /\ Contains(S_off, ui_text)
             THEN [status |-> "PASSED", reason |-> "WiFi toggle is OFF"]
             ELSE HeuristicFailed
        ELSE HeuristicFailed

\* an extraction that takes the texts out of the nodes it visits
\* (node.pop('text') in place of node['text'])
RECURSIVE TreeAfterExtractPopping(_)
TreeAfterExtractPopping(ui_tree) ==
    [k \in DOMAIN ui_tree \ {"text"} |->
        IF k = "children"
        THEN [i \in 1..Len(ui_tree.children) |-> TreeAfterExtractPopping(ui_tree.children[i])]
        ELSE ui_tree[k]]

\* the ui_tree object after _heuristic_verification has run on it: extract()
\* reads the nodes with node.get and node[...] and assigns to none of them;
\* the list it appends to, texts, is created by the call
TreeAfterExtract(ui_tree) == ui_tree

\* VerifierAgent._verify_step_outcome.  The module never imports json, so
\* json.loads(response) raises NameError for every response of the language
\* model; the bare except catches it and the heuristic answers.
VerifyStepOutcome(expected, ui_tree, response) ==
    HeuristicVerification(expected, ui_tree)

\* a verification that asks the strategy about every result, failed or not
VerifyOneJudged(i, step, result, response) ==
    [current_state |-> result.ui_hierarchy] @@ [step_num |-> i] @@
    VerifyStepOutcome(step.verification, result.ui_hierarchy, response)

\* the verification _verify_results builds for step i (0-based) of the plan
VerifyOne(i, step, result, response) ==
    LET verification ==
            IF ~result.success
            THEN [step_num |-> i, status |-> "FAILED",
                  error |-> Get(result.details, "error", <<"U","n","k","n","o","w","n"," ","e","r","r","o","r">>),
                  needs_replanning |-> TRUE]
            ELSE [step_num |-> i] @@
                 VerifyStepOutcome(step.verification, result.ui_hierarchy, response)
    IN  [current_state |-> result.ui_hierarchy] @@ verification

\* whether _verify_results calls llm_client.generate for this result
ConsultsStrategy(result) == result.success

Min(a, b) == IF a < b THEN a ELSE b

\* VerifierAgent._verify_results: zip(plan, results) pairs the steps with the
\* results up to the shorter of the two.  response is what llm_client.generate
\* answers during this call.
VerifyResults(plan, results, response) ==
    [n \in 1..Min(Len(plan), Len(results)) |->
        VerifyOne(n - 1, plan[n], results[n], response)]

(***************************************************************************)
(* ExecutorAgent                                                           *)
(***************************************************************************)
\* whether search_tree's test matches this node
NodeMatches(target_lower, node) ==
    \/ Contains(target_lower, Lower(Get(node, "text", <<>>)))
    \/ Contains(target_lower, Lower(Get(node, "content_desc", <<>>)))
    \/ Contains(target_lower, Lower(Get(node, "resource_id", <<>>)))

\* search_tree of _find_ui_element: the node itself, else the first hit among
\* its children in order, else nothing.  The result is <<node>> or <<>>.
RECURSIVE SearchTree(_, _)
RECURSIVE SearchChildren(_, _)
SearchTree(target_lower, node) ==
    IF NodeMatches(target_lower, node) THEN <<node>>
    ELSE SearchChildren(target_lower, Get(node, "children", <<>>))

SearchChildren(target_lower, children) ==
    IF children = <<>> THEN <<>>
    ELSE LET result == SearchTree(target_lower, Head(children))
         IN  IF result # <<>> THEN result
             ELSE SearchChildren(target_lower, Tail(children))

\* ExecutorAgent._find_ui_element
FindUiElement(target, ui_tree) == SearchTree(Lower(target), ui_tree)

\* ExecutorAgent._execute_tap: (success, details) and the actions handed to
\* env.step.  Every observation of the pool carries a non-empty 'ui_tree'.
ExecuteTap(target, observation) ==
    LET found == FindUiElement(target, observation.ui_tree)
    IN  IF found = <<>>
        THEN [success |-> FALSE,
              details |-> [error |-> <<"C","o","u","l","d"," ","n","o","t"," ","f","i","n","d"," ",
                                       "e","l","e","m","e","n","t",":"," ">> \o target],
              actions |-> <<>>]
        ELSE LET element == found[1]
                 bounds == Get(element, "bounds", <<>>)
             IN  IF Len(bounds) = 4
                 THEN LET x == (bounds[1] + bounds[3]) \div 2
                          y == (bounds[2] + bounds[4]) \div 2
                      IN  [success |-> TRUE,
                           details |-> [tapped_at |-> <<x, y>>,
                                        element |-> Get(element, "text", <<>>)],
                           actions |-> <<[action_type |-> "touch",
                                          coordinate |-> <<x, y>>]>>]
                 ELSE [success |-> FALSE,
                       details |-> [error |-> <<"I","n","v","a","l","i","d"," ","e","l","e","m","e","n","t",
                                                " ","b","o","u","n","d","s">>],
                       actions |-> <<>>]

\* a scroll that looks its target up on the screen first, as a tap does
ExecuteScrollMatched(target, observation) ==
    LET found == FindUiElement(target, observation.ui_tree)
        screen_height == Get(observation, "screen_height", 1920)
        screen_width == Get(observation, "screen_width", 1080)
    IN  IF found = <<>>
        THEN [success |-> FALSE,
              details |-> [error |-> <<"C","o","u","l","d"," ","n","o","t"," ","f","i","n","d"," ",
                                       "e","l","e","m","e","n","t",":"," ">> \o target],
              actions |-> <<>>]
        ELSE [success |-> TRUE,
              details |-> [scrolled |-> "down",
                           distance |-> (screen_height * 3) \div 4 - screen_height \div 4],
              actions |-> <<[action_type |-> "swipe",
                             start_coordinate |-> <<screen_width \div 2, (screen_height * 3) \div 4>>,
                             end_coordinate |-> <<screen_width \div 2, screen_height \div 4>>,
                             duration |-> 500]>>]

\* ExecutorAgent._execute_scroll
ExecuteScroll(target, observation) ==
    LET screen_height == Get(observation, "screen_height", 1920)
        screen_width == Get(observation, "screen_width", 1080)
        start_x == screen_width \div 2
        start_y == (screen_height * 3) \div 4
        end_x == screen_width \div 2
        end_y == screen_height \div 4
    IN  [success |-> TRUE,
         details |-> [scrolled |-> "down", distance |-> start_y - end_y],
         actions |-> <<[action_type |-> "swipe",
                        start_coordinate |-> <<start_x, start_y>>,
                        end_coordinate |-> <<end_x, end_y>>,
                        duration |-> 500]>>]

\* the exception time.sleep(float(step['target'].split()[0])) raises, or "none"
WaitRaises(target) ==
    LET words == Split(target)
    IN  IF words = <<>> THEN "IndexError"
        ELSE IF ~ParsesAsFloat(words[1]) THEN "ValueError"
        ELSE IF words[1][1] = "-" THEN "ValueError"
        ELSE "none"

\* the if/elif chain of _execute_plan for one step: the exception it raises
\* (or "none"), (success, details), and the actions handed to env.step.
\* ExecutorAgent defines no _execute_type, so a 'type' step raises
\* AttributeError.
ExecuteStep(step, observation) ==
    IF step.action = <<"t","a","p">>
    THEN [raised |-> "none"] @@ ExecuteTap(step.target, observation)
    ELSE IF step.action = <<"s","c","r","o","l","l">>
    THEN [raised |-> "none"] @@ ExecuteScroll(step.target, observation)
    ELSE IF step.action = <<"t","y","p","e">>
    THEN [raised |-> "AttributeError", success |-> FALSE, details |-> [error |-> <<>>],
          actions |-> <<>>]
    ELSE IF step.action = <<"w","a","i","t">>
    THEN [raised |-> WaitRaises(step.target), success |-> TRUE,
          details |-> [waited |-> step.target], actions |-> <<>>]
    ELSE [raised |-> "none", success |-> FALSE,
          details |-> [error |-> <<"U","n","k","n","o","w","n"," ","a","c","t","i","o","n",":"," ">>
                                   \o step.action],
          actions |-> <<>>]

\* the result dict _execute_plan records for a step
StepResult(step, outcome, observation) ==
    [step |-> step, success |-> outcome.success, details |-> outcome.details,
     screenshot |-> Get(observation, "pixels", NoneVal),
     ui_hierarchy |-> Get(observation, "ui_tree", NoneVal)]

\* a stop test that ignores the step's fallback
StopsAfterAnyFailure(step, success) == ~success

\* "if not success and not step.get('fallback'): break"
StopsAfter(step, success) == ~success /\ ~Truthy(Get(step, "fallback", NoneVal))

\* a step that hands its action to the driver before it observes the screen
StepEventsActFirst(k, outcome) ==
    [a \in 1..Len(outcome.actions) |-> [kind |-> "act", step |-> k]]
    \o <<[kind |-> "observe", step |-> k]>>

\* the events of one step: the observation, then the actions handed to the driver
StepEvents(k, outcome) ==
    <<[kind |-> "observe", step |-> k]>>
    \o [a \in 1..Len(outcome.actions) |-> [kind |-> "act", step |-> k]]

\* the loop of _execute_plan from step k (1-based) on: observations[k] is what
\* env.observe() returns for step k
RECURSIVE ExecuteFrom(_, _, _, _, _)
ExecuteFrom(plan, observations, k, results, events) ==
    IF k > Len(plan) THEN [raised |-> "none", results |-> results, events |-> events]
    ELSE LET step == plan[k]
             outcome == ExecuteStep(step, observations[k])
             events2 == events \o StepEvents(k, outcome)
         IN  IF outcome.raised # "none"
             THEN [raised |-> outcome.raised, results |-> results, events |-> events2]
             ELSE LET results2 == Append(results, StepResult(step, outcome, observations[k]))
                  IN  IF StopsAfter(step, outcome.success)
                      THEN [raised |-> "none", results |-> results2, events |-> events2]
                      ELSE ExecuteFrom(plan, observations, k + 1, results2, events2)

\* ExecutorAgent._execute_plan
ExecutePlan(plan, observations) == ExecuteFrom(plan, observations, 1, <<>>, <<>>)

(***************************************************************************)
(* PlannerAgent                                                            *)
(***************************************************************************)
\* PlannerAgent._get_default_wifi_test_plan
DefaultWifiTestPlan ==
    << [action |-> <<"t","a","p">>,
        target |-> <<"S","e","t","t","i","n","g","s"," ","a","p","p">>,
        verification |-> <<"S","e","t","t","i","n","g","s"," ","m","a","i","n"," ","s","c","r","e","e","n"," ","v","i","s","i","b","l","e">>,
        fallback |-> <<"O","p","e","n"," ","f","r","o","m"," ","a","p","p"," ","d","r","a","w","e","r">>],
       [action |-> <<"s","c","r","o","l","l">>,
        target |-> <<"S","e","t","t","i","n","g","s"," ","l","i","s","t">>,
        verification |-> <<"N","e","t","w","o","r","k"," ","s","e","t","t","i","n","g","s"," ","v","i","s","i","b","l","e">>,
        fallback |-> <<"S","e","a","r","c","h"," ","f","o","r"," ","W","i","F","i">>],
       [action |-> <<"t","a","p">>,
        target |-> <<"W","i","F","i"," ","o","r"," ","N","e","t","w","o","r","k"," ","o","p","t","i","o","n">>,
        verification |-> <<"W","i","F","i"," ","s","e","t","t","i","n","g","s"," ","s","c","r","e","e","n"," ","o","p","e","n">>,
        fallback |-> <<"T","r","y"," ","'","C","o","n","n","e","c","t","i","o","n","s","'"," ","f","i","r","s","t">>],
       [action |-> <<"t","a","p">>,
        target |-> <<"W","i","F","i"," ","t","o","g","g","l","e"," ","s","w","i","t","c","h">>,
        verification |-> <<"W","i","F","i"," ","i","s"," ","n","o","w"," ","O","N">>,
        fallback |-> <<"C","h","e","c","k"," ","i","f"," ","a","l","r","e","a","d","y"," ","o","n">>],
       [action |-> <<"w","a","i","t">>,
        target |-> <<"2"," ","s","e","c","o","n","d","s">>,
        verification |-> <<"W","i","F","i"," ","n","e","t","w","o","r","k","s"," ","a","p","p","e","a","r">>,
        fallback |-> <<"C","o","n","t","i","n","u","e"," ","a","n","y","w","a","y">>],
       [action |-> <<"t","a","p">>,
        target |-> <<"W","i","F","i"," ","t","o","g","g","l","e"," ","s","w","i","t","c","h">>,
        verification |-> <<"W","i","F","i"," ","i","s"," ","n","o","w"," ","O","F","F">>,
        fallback |-> <<"R","e","p","o","r","t"," ","a","s"," ","b","u","g"," ","i","f"," ","s","t","u","c","k">>] >>

\* the list _adapt_plan returns when the response does not parse
SimpleRecoveryPlan ==
    << [action |-> <<"t","a","p">>,
        target |-> <<"B","a","c","k"," ","b","u","t","t","o","n">>,
        verification |-> <<"P","r","e","v","i","o","u","s"," ","s","c","r","e","e","n">>],
       [action |-> <<"t","a","p">>,
        target |-> <<"H","o","m","e"," ","b","u","t","t","o","n">>,
        verification |-> <<"H","o","m","e"," ","s","c","r","e","e","n">>] >>

\* PlannerAgent._create_test_plan: json.loads(response), and the default plan
\* on json.JSONDecodeError.  The responses of the pool that parse are lists
\* of steps (an empty dict behaves as the empty list in all that follows).
CreateTestPlan(goal, response) ==
    IF response.parses THEN response.value ELSE DefaultWifiTestPlan

\* PlannerAgent._adapt_plan
AdaptPlan(original_goal, current_state, error, response) ==
    IF response.parses THEN response.value ELSE SimpleRecoveryPlan

(***************************************************************************)
(* The collaborators: what the language model and the environment answer   *)
(***************************************************************************)
\* steps a language model may put in a plan: the two of MockLLMClient, and
\* one for each branch of _execute_plan
StepPool ==
    { [action |-> <<"t","a","p">>, target |-> <<"S","e","t","t","i","n","g","s">>,
       verification |-> <<"S","e","t","t","i","n","g","s"," ","s","c","r","e","e","n"," ","o","p","e","n">>],
      [action |-> <<"t","a","p">>, target |-> <<"W","i","F","i">>,
       verification |-> <<"W","i","F","i"," ","i","s"," ","n","o","w"," ","O","N">>,
       fallback |-> <<"R","e","t","r","y">>],
      [action |-> <<"s","c","r","o","l","l">>, target |-> <<>>, verification |-> <<>>],
      [action |-> <<"t","y","p","e">>, target |-> <<"S","e","a","r","c","h">>,
       verification |-> <<"d","o","n","e">>],
      [action |-> <<"w","a","i","t">>, target |-> <<"a"," ","m","o","m","e","n","t">>,
       verification |-> <<"S","e","t","t","i","n","g","s"," ","v","i","s","i","b","l","e">>],
      [action |-> <<"s","w","i","p","e">>, target |-> <<"u","p">>,
       verification |-> <<"d","o","n","e">>,
       fallback |-> <<"C","o","n","t","i","n","u","e">>] }

\* the lists of at most n steps
PlansUpTo(n) == UNION { [1..k -> StepPool] : k \in 0..n }

\* what llm_client.generate answers to a plan prompt: text json.loads rejects,
\* or the text of a list of steps
PlanResponses ==
    {[parses |-> FALSE]} \cup {[parses |-> TRUE, value |-> p] : p \in PlansUpTo(MaxPlanLen)}

\* what llm_client.generate answers to a verification prompt
JudgmentResponses ==
    {[parses |-> FALSE],
     [parses |-> TRUE, value |-> [status |-> "FAILED", reason |-> "mismatch", confidence |-> 9]],
     [parses |-> TRUE, value |-> [status |-> "BUG_DETECTED", reason |-> "crash", confidence |-> 9]]}

\* a screen on which the Settings icon and the WiFi switch can be tapped and
\* the Back button has unusable bounds
TreeHome ==
    [text |-> <<"H","o","m","e">>, bounds |-> <<0, 0, 480, 800>>,
     children |->
        << [text |-> <<"S","e","t","t","i","n","g","s"," ","a","p","p">>,
            resource_id |-> <<"s","e","t","t","i","n","g","s","_","i","c","o","n">>,
            bounds |-> <<100, 200, 200, 301>>],
           [content_desc |-> <<"W","i","F","i"," ","t","o","g","g","l","e"," ","s","w","i","t","c","h"," ","O","N">>,
            bounds |-> <<300, 100, 400, 150>>],
           [text |-> <<"B","a","c","k"," ","b","u","t","t","o","n">>, bounds |-> <<20, 50>>] >>]

\* a screen without any text
TreeBlank == [children |-> <<>>]

\* what env.observe() may return
ObservationPool ==
    { [ui_tree |-> TreeHome, pixels |-> <<"p","n","g">>,
       screen_height |-> 800, screen_width |-> 480],
      [ui_tree |-> TreeBlank] }

Goals == {"Test turning WiFi on and off"}

(***************************************************************************)
(* MultiAgentQASystem.run_test: the state of a run                         *)
(***************************************************************************)
VARIABLES
    current_message,       \* run_test's current_message
    iteration,             \* run_test's iteration
    outcome,               \* "running"; "None" once run_test has returned;
                           \* the class of the exception that ended it otherwise
    invoked,               \* the agents whose process() run_test has called, in order
    events,                \* what happened to the plan in hand: env.observe() and
                           \* env.step() calls of the Executor, then the Verifier's
                           \* verifications, in order
    verification_results,  \* the list _verify_results returned to the Verifier's
                           \* last process() call
    llm_calls,             \* the step_num of each result for which that call ran
                           \* llm_client.generate
    recovery,              \* <<plan>> for the plan _adapt_plan returned, until it
                           \* is verified; <<>> otherwise
    abandoned,             \* how many steps of the verified plan had not run when
                           \* the Verifier asked for replanning, until the next
                           \* verification
    fold_result,           \* what _determine_overall_status returned when called
                           \* on its own (FoldSpec)
    call,                  \* a function called on its own (CallSpec): its name
                           \* and arguments
    ret,                   \* <<v>> once that call has returned v; <<>> before
    test_history,          \* SupervisorAgent.test_history
    threads,               \* the threads that call process() of one shared
                           \* SupervisorAgent (AggSpec): the message of each, where
                           \* it is, and how its call ended
    final_report,          \* <<v>> for the v generate_final_report returned last
    wrapper,               \* AndroidEnvWrapper: task_name, current_observation
                           \* (<<>> for None) and step_count
    step_result            \* <<v>> for what the wrapper's last reset() or step()
                           \* returned or raised; <<>> before the first

\* the objects outside run_test
objvars == <<test_history, threads, final_report, wrapper, step_result>>

vars == <<current_message, iteration, outcome, invoked, events,
          verification_results, llm_calls, recovery, abandoned, fold_result,
          call, ret, objvars>>

\* SupervisorAgent.__init__ and AndroidEnvWrapper.__init__: an empty
\* test_history, no observation, step_count 0; nobody has called them
Constructed ==
    /\ test_history = <<>>
    /\ threads = <<>>
    /\ final_report = <<>>
    /\ wrapper = [task_name |-> "settings_wifi", current_observation |-> <<>>,
                 step_count |-> 0]
    /\ step_result = <<>>

\* no function is called on its own
NoCall == [fn |-> "none"]

\* the variables of CallSpec
callvars == <<call, ret>>

\* max_iterations of run_test
MaxIterations == 10

\* the exceptions that end a run
Exceptions == {"NameError", "KeyError", "AttributeError", "ValueError", "IndexError"}

\* BaseAgent.send_message (the timestamp is left out)
SendMessage(sender, recipient, message_type, content) ==
    [sender |-> sender, recipient |-> recipient,
     message_type |-> message_type, content |-> content]

Init ==
    /\ \E goal \in Goals :
          current_message = SendMessage("System", "PlannerAgent", "create_plan",
                                        [goal |-> goal])
    /\ iteration = 0
    /\ Constructed
    /\ outcome = "running"
    /\ invoked = <<>>
    /\ events = <<>>
    /\ verification_results = <<>>
    /\ llm_calls = {}
    /\ recovery = <<>>
    /\ abandoned = 0
    /\ fold_result = "unset"
    /\ call = NoCall
    /\ ret = <<>>

\* the head of the while loop, and the branch taken for this recipient
Routes(agent) ==
    /\ outcome = "running"
    /\ iteration < MaxIterations
    /\ current_message.recipient = agent
    /\ iteration' = iteration + 1
    /\ invoked' = Append(invoked, agent)

\* a Planner that answers a replanning request with the default plan
ReplanContentRestart(new_plan) == [plan |-> DefaultWifiTestPlan, is_recovery |-> TRUE]

\* the content of the message PlannerAgent.process sends for replan_needed
ReplanContent(new_plan) == [plan |-> new_plan, is_recovery |-> TRUE]

\* a Planner that hands the goal on with the plan
PlanContentWithGoal(goal, plan) == [plan |-> plan, original_goal |-> goal]

\* the content of the message PlannerAgent.process sends for create_plan,
\* goal being message.content["goal"]
PlanContent(goal, plan) == [plan |-> plan]

\* PlannerAgent.process, message_type "create_plan", with a language model
\* that answers one of responses
PlannerCreatePlanWith(responses) ==
    /\ Routes("PlannerAgent")
    /\ current_message.message_type = "create_plan"
    /\ \E response \in responses :
          LET plan == CreateTestPlan(current_message.content.goal, response)
          IN  current_message' = SendMessage("PlannerAgent", "ExecutorAgent",
                                             "execute_plan",
                                             PlanContent(current_message.content.goal, plan))
    /\ events' = <<>>
    /\ verification_results' = <<>>
    /\ llm_calls' = {}
    /\ UNCHANGED <<outcome, recovery, abandoned, fold_result, call, ret, objvars>>

PlannerCreatePlan == PlannerCreatePlanWith(PlanResponses)

\* PlannerAgent.process, message_type "replan_needed", with a language model
\* that answers one of responses
PlannerReplanWith(responses) ==
    /\ Routes("PlannerAgent")
    /\ current_message.message_type = "replan_needed"
    /\ \E response \in responses :
          LET new_plan == AdaptPlan(current_message.content.original_goal,
                                    current_message.content.current_state,
                                    current_message.content.error, response)
          IN  /\ current_message' = SendMessage("PlannerAgent", "ExecutorAgent",
                                                "execute_plan", ReplanContent(new_plan))
              /\ recovery' = <<new_plan>>
    /\ events' = <<>>
    /\ verification_results' = <<>>
    /\ llm_calls' = {}
    /\ UNCHANGED <<outcome, abandoned, fold_result, call, ret, objvars>>

PlannerReplan == PlannerReplanWith(PlanResponses)

\* ExecutorAgent.process: _execute_plan returns and the results go to the
\* Verifier (run_test then takes a screenshot, which only observes).
\* env.observe() returns one of screens.
ExecutorProcessOn(screens) ==
    /\ Routes("ExecutorAgent")
    /\ current_message.message_type = "execute_plan"
    /\ LET plan == current_message.content.plan
       IN  \E observations \in [1..Len(plan) -> screens] :
              LET run == ExecutePlan(plan, observations)
              IN  /\ run.raised = "none"
                  /\ events' = run.events
                  /\ current_message' =
                        SendMessage("ExecutorAgent", "VerifierAgent", "verify_execution",
                                    [plan |-> plan, results |-> run.results])
    /\ UNCHANGED <<outcome, verification_results, llm_calls, recovery, abandoned,
                   fold_result, call, ret, objvars>>

ExecutorProcess == ExecutorProcessOn(ObservationPool)

\* ExecutorAgent.process: _execute_plan raises, and the exception leaves run_test
ExecutorRaises ==
    /\ Routes("ExecutorAgent")
    /\ current_message.message_type = "execute_plan"
    /\ LET plan == current_message.content.plan
       IN  \E observations \in [1..Len(plan) -> ObservationPool] :
              LET run == ExecutePlan(plan, observations)
              IN  /\ run.raised # "none"
                  /\ events' = run.events
                  /\ outcome' = run.raised
    /\ UNCHANGED <<current_message, verification_results, llm_calls, recovery,
                   abandoned, fold_result, call, ret, objvars>>

\* the verifications the Verifier's call adds to the events
VerifyEvents(results) == [n \in 1..Len(results) |-> [kind |-> "verify", step |-> n]]

\* the part of VerifierAgent.process before the branch: _verify_results
Verifies(results) ==
    /\ Routes("VerifierAgent")
    /\ verification_results' = results
    /\ llm_calls' = {n - 1 : n \in {m \in 1..Len(results) :
                        ConsultsStrategy(current_message.content.results[m])}}
    /\ events' = events \o VerifyEvents(results)
    /\ recovery' = <<>>

\* the number of steps of the plan that were not executed
Rest(plan, results) == Len(plan) - Len(results)

\* VerifierAgent.process: replanning is needed and the last verification has
\* an 'error'
VerifierReplan ==
    /\ current_message.message_type = "verify_execution"
    /\ \E response \in JudgmentResponses :
          LET results == VerifyResults(current_message.content.plan,
                                       current_message.content.results, response)
          IN
          /\ Verifies(results)
          /\ NeedsReplanning(results)
          /\ "error" \in DOMAIN results[Len(results)]
          /\ current_message' =
                SendMessage("VerifierAgent", "PlannerAgent", "replan_needed",
                            [original_goal |-> Get(current_message.content, "original_goal", NoneVal),
                             current_state |-> results[Len(results)].current_state,
                             error |-> results[Len(results)].error])
          /\ abandoned' = Rest(current_message.content.plan, current_message.content.results)
          /\ UNCHANGED <<outcome, fold_result, call, ret, objvars>>

\* VerifierAgent.process: replanning is needed and the last verification has
\* no 'error': verification_results[-1]["error"] raises KeyError
VerifierRaises ==
    /\ current_message.message_type = "verify_execution"
    /\ \E response \in JudgmentResponses :
          LET results == VerifyResults(current_message.content.plan,
                                       current_message.content.results, response)
          IN
          /\ Verifies(results)
          /\ NeedsReplanning(results)
          /\ "error" \notin DOMAIN results[Len(results)]
          /\ outcome' = "KeyError"
          /\ abandoned' = 0
          /\ UNCHANGED <<current_message, fold_result, call, ret, objvars>>

\* VerifierAgent.process: no replanning, the results go to the Supervisor
VerifierCompleted ==
    /\ current_message.message_type = "verify_execution"
    /\ \E response \in JudgmentResponses :
          LET results == VerifyResults(current_message.content.plan,
                                       current_message.content.results, response)
          IN
          /\ Verifies(results)
          /\ ~NeedsReplanning(results)
          /\ current_message' =
                SendMessage("VerifierAgent", "SupervisorAgent", "test_completed",
                            [verification_results |-> results,
                             overall_status |-> DetermineOverallStatus(results)])
          /\ abandoned' = 0
          /\ UNCHANGED <<outcome, fold_result, call, ret, objvars>>

\* the longest verification_results of a message handed to the Supervisor
MaxReportSteps == 2

\* the statuses of the results _verify_results builds
ReportedStatuses == {"PASSED", "FAILED", "BUG_DETECTED"}

\* the content of a Verifier's "test_completed" message: verification_results
\* and the overall status _determine_overall_status gave them
TestDataPool ==
    { [verification_results |-> results,
       overall_status |-> DetermineOverallStatus(results)] :
        results \in UNION { [1..k -> {[status |-> st] : st \in ReportedStatuses}] :
                              k \in 0..MaxReportSteps } }

\* SupervisorAgent._generate_test_report: the module never imports time, so
\* building the report's 'test_id', f"test_{int(time.time())}", raises
\* NameError for every test_data
GenerateTestReportRaises(test_data) == "NameError"

\* SupervisorAgent.process: _generate_test_report raises before anything is
\* appended to test_history or sent, and the exception leaves run_test
SupervisorProcess ==
    /\ Routes("SupervisorAgent")
    /\ current_message.message_type = "test_completed"
    /\ outcome' = GenerateTestReportRaises(current_message.content)
    /\ UNCHANGED <<current_message, events, verification_results, llm_calls,
                   recovery, abandoned, fold_result, call, ret, objvars>>

\* the while condition fails: run_test prints "Test execution finished!" and
\* returns None
LoopEnds ==
    /\ outcome = "running"
    /\ iteration >= MaxIterations
    /\ outcome' = "None"
    /\ UNCHANGED <<current_message, iteration, invoked, events, verification_results,
                   llm_calls, recovery, abandoned, fold_result, call, ret, objvars>>

\* No message of a run names "System" or an unknown recipient: the only
\* sender of a message to "System" is SupervisorAgent.process, which raises
\* first.  Those two branches of run_test therefore have no step here.
Next ==
    \/ PlannerCreatePlan
    \/ PlannerReplan
    \/ ExecutorProcess
    \/ ExecutorRaises
    \/ VerifierReplan
    \/ VerifierRaises
    \/ VerifierCompleted
    \/ SupervisorProcess
    \/ LoopEnds

Spec == Init /\ [][Next]_vars

(***************************************************************************)
(* _determine_overall_status on its own: every list of at most MaxStatuses *)
(* verification results, with any status or none                           *)
(***************************************************************************)
FoldResults ==
    {[status |-> st] : st \in Statuses} \cup {[reason |-> "no status"]}

FoldInputs == UNION { [1..k -> FoldResults] : k \in 0..MaxStatuses }

FoldInit ==
    /\ verification_results \in FoldInputs
    /\ fold_result = "unset"
    /\ \E goal \in Goals :
          current_message = SendMessage("System", "PlannerAgent", "create_plan",
                                        [goal |-> goal])
    /\ iteration = 0
    /\ Constructed
    /\ outcome = "running"
    /\ invoked = <<>>
    /\ events = <<>>
    /\ llm_calls = {}
    /\ recovery = <<>>
    /\ abandoned = 0
    /\ call = NoCall
    /\ ret = <<>>

FoldStep ==
    /\ fold_result = "unset"
    /\ fold_result' = DetermineOverallStatus(verification_results)
    /\ UNCHANGED <<current_message, iteration, outcome, invoked, events,
                   verification_results, llm_calls, recovery, abandoned, call, ret, objvars>>

FoldNext == FoldStep

FoldSpec == FoldInit /\ [][FoldNext]_vars

(***************************************************************************)
(* src/multi_agent_qa: the second ExecutorAgent, which resolves a subgoal  *)
(* to an action plan (_analyze_subgoal) and hands it to android_env.step.  *)
(* An Optional value is <<v>>, or <<>> for None.  The 'action_type' of an  *)
(* action plan is only compared with literals and is a TLA+ string.        *)
(***************************************************************************)
\* ExecutorAgent._element_matches_criterion
ElementMatchesCriterion(element, criterion) ==
    IF "text_contains" \in DOMAIN criterion
    THEN Contains(Lower(criterion.text_contains), Lower(Get(element, "text", <<>>)))
    ELSE IF "id_contains" \in DOMAIN criterion
    THEN Contains(Lower(criterion.id_contains), Lower(Get(element, "id", <<>>)))
    ELSE IF "class_contains" \in DOMAIN criterion
    THEN Contains(Lower(criterion.class_contains), Lower(Get(element, "class", <<>>)))
    ELSE IF "type" \in DOMAIN criterion
    THEN Get(element, "type", <<>>) = criterion.type
    ELSE FALSE

\* a search that goes through the elements first and returns the first one
\* that satisfies any of the criteria
FindByElementsFirst(elements, criteria_list, c) ==
    LET hits == {e \in 1..Len(elements) :
                    \E k \in c..Len(criteria_list) :
                        ElementMatchesCriterion(elements[e], criteria_list[k])}
    IN  IF hits # {} THEN <<elements[CHOOSE e \in hits : \A f \in hits : e <= f]>>
        ELSE <<>>

\* ExecutorAgent._find_element_by_criteria: the criteria in order, and for each
\* the elements in order; the first match, or None
RECURSIVE FindByCriteriaFrom(_, _, _)
FindByCriteriaFrom(elements, criteria_list, c) ==
    IF c > Len(criteria_list) THEN <<>>
    ELSE LET hits == {e \in 1..Len(elements) :
                         ElementMatchesCriterion(elements[e], criteria_list[c])}
         IN  IF hits # {}
             THEN <<elements[CHOOSE e \in hits : \A f \in hits : e <= f]>>
             ELSE FindByCriteriaFrom(elements, criteria_list, c + 1)

FindElementByCriteria(ui_state, criteria_list) ==
    FindByCriteriaFrom(Get(ui_state, "ui_elements", <<>>), criteria_list, 1)

\* a centre that rounds the midpoint towards zero instead of down
GetElementCenterTruncated(element) ==
    LET bounds == Get(element, "bounds", <<0, 0, 100, 100>>)
        half(n) == IF n >= 0 THEN n \div 2 ELSE 0 - ((0 - n) \div 2)
    IN  IF Len(bounds) >= 4
        THEN <<half(bounds[1] + bounds[3]), half(bounds[2] + bounds[4])>>
        ELSE <<400, 400>>

\* ExecutorAgent._get_element_center
GetElementCenter(element) ==
    LET bounds == Get(element, "bounds", <<0, 0, 100, 100>>)
    IN  IF Len(bounds) >= 4
        THEN <<(bounds[1] + bounds[3]) \div 2, (bounds[2] + bounds[4]) \div 2>>
        ELSE <<400, 400>>

\* ExecutorAgent._get_fallback_coordinates
GetFallbackCoordinates(action, description) ==
    IF Contains(<<"s","e","t","t","i","n","g","s">>, Lower(action))
    THEN [action_type |-> "touch", coordinates |-> <<200, 400>>,
          description |-> <<"T","a","p"," ","S","e","t","t","i","n","g","s"," ","(","f","a","l","l","b","a","c","k"," ","c","o","o","r","d","i","n","a","t","e","s",")">>]
    ELSE IF Contains(<<"w","i","f","i">>, Lower(action))
    THEN [action_type |-> "touch", coordinates |-> <<300, 300>>,
          description |-> <<"T","a","p"," ","W","i","F","i"," ","o","p","t","i","o","n"," ","(","f","a","l","l","b","a","c","k"," ","c","o","o","r","d","i","n","a","t","e","s",")">>]
    ELSE IF Contains(<<"t","o","g","g","l","e">>, Lower(action))
    THEN [action_type |-> "touch", coordinates |-> <<700, 200>>,
          description |-> <<"T","a","p"," ","t","o","g","g","l","e"," ","s","w","i","t","c","h"," ","(","f","a","l","l","b","a","c","k"," ","c","o","o","r","d","i","n","a","t","e","s",")">>]
    ELSE [action_type |-> "touch", coordinates |-> <<400, 400>>,
          description |-> <<"T","a","p"," ","c","e","n","t","e","r"," ","o","f"," ","s","c","r","e","e","n"," ","(","f","a","l","l","b","a","c","k",")">>]

\* ExecutorAgent._plan_navigation_action
PlanNavigationAction(action, description, ui_state) ==
    IF Contains(<<"s","e","t","t","i","n","g","s">>, action) \/ Contains(<<"s","e","t","t","i","n","g","s">>, description)
    THEN LET settings_element ==
                 FindElementByCriteria(ui_state,
                     << [text_contains |-> <<"s","e","t","t","i","n","g","s">>],
                        [text_contains |-> <<"S","e","t","t","i","n","g","s">>],
                        [id_contains |-> <<"s","e","t","t","i","n","g","s">>] >>)
         IN  IF settings_element # <<>>
             THEN <<[action_type |-> "touch",
                     target_element |-> settings_element[1],
                     coordinates |-> GetElementCenter(settings_element[1]),
                     description |-> <<"T","a","p"," ","S","e","t","t","i","n","g","s"," ","a","p","p","/","o","p","t","i","o","n">>]>>
             ELSE <<>>
    ELSE IF Contains(<<"h","o","m","e">>, action)
    THEN <<[action_type |-> "home", description |-> <<"P","r","e","s","s"," ","h","o","m","e"," ","b","u","t","t","o","n">>]>>
    ELSE IF Contains(<<"b","a","c","k">>, action)
    THEN <<[action_type |-> "back", description |-> <<"P","r","e","s","s"," ","b","a","c","k"," ","b","u","t","t","o","n">>]>>
    ELSE <<>>

\* the target_keywords _plan_touch_action collects
TargetKeywords(action, description) ==
    (IF Contains(<<"w","i","f","i">>, action) \/ Contains(<<"w","i","f","i">>, description)
     THEN << <<"w","i","f","i">>, <<"w","i","-","f","i">>, <<"w","i","r","e","l","e","s","s">> >> ELSE <<>>)
    \o (IF Contains(<<"t","o","g","g","l","e">>, action) \/ Contains(<<"s","w","i","t","c","h">>, description)
        THEN << <<"t","o","g","g","l","e">>, <<"s","w","i","t","c","h">> >> ELSE <<>>)
    \o (IF Contains(<<"b","u","t","t","o","n">>, description) THEN << <<"b","u","t","t","o","n">> >> ELSE <<>>)

\* ExecutorAgent._plan_touch_action
PlanTouchAction(action, description, ui_state) ==
    LET target_keywords == TargetKeywords(action, description)
        target_element ==
            FindElementByCriteria(ui_state,
                [k \in 1..Len(target_keywords) |-> [text_contains |-> target_keywords[k]]]
                \o [k \in 1..Len(target_keywords) |-> [id_contains |-> target_keywords[k]]])
    IN  IF target_element # <<>>
        THEN <<[action_type |-> "touch",
                target_element |-> target_element[1],
                coordinates |-> GetElementCenter(target_element[1]),
                description |-> <<"T","a","p"," ">> \o Get(target_element[1], "text", <<"e","l","e","m","e","n","t">>)]>>
        ELSE <<GetFallbackCoordinates(action, description)>>

\* ExecutorAgent._extract_verification_criteria
ExtractVerificationCriteria(description) ==
    LET criteria ==
            (IF Contains(<<"w","i","f","i">>, Lower(description))
             THEN << <<"W","i","F","i"," ","t","o","g","g","l","e"," ","v","i","s","i","b","l","e">>, <<"W","i","F","i"," ","s","t","a","t","u","s"," ","c","l","e","a","r">> >> ELSE <<>>)
            \o (IF Contains(<<"s","e","t","t","i","n","g","s">>, Lower(description))
                THEN << <<"S","e","t","t","i","n","g","s"," ","s","c","r","e","e","n"," ","v","i","s","i","b","l","e">>, <<"M","e","n","u"," ","o","p","t","i","o","n","s"," ","p","r","e","s","e","n","t">> >> ELSE <<>>)
            \o (IF Contains(<<"t","o","g","g","l","e">>, Lower(description))
                THEN << <<"T","o","g","g","l","e"," ","s","w","i","t","c","h"," ","s","t","a","t","e"," ","c","l","e","a","r">> >> ELSE <<>>)
    IN  IF criteria # <<>> THEN criteria ELSE << <<"U","I"," ","s","t","a","t","e"," ","v","e","r","i","f","i","c","a","t","i","o","n">> >>

\* ExecutorAgent._plan_verification_action
PlanVerificationAction(action, description, ui_state) ==
    <<[action_type |-> "screenshot",
       description |-> <<"T","a","k","e"," ","s","c","r","e","e","n","s","h","o","t"," ","f","o","r"," ","v","e","r","i","f","i","c","a","t","i","o","n">>,
       verification_criteria |-> ExtractVerificationCriteria(description)]>>

\* ExecutorAgent._plan_input_action
PlanInputAction(action, description, ui_state) ==
    LET input_element ==
            FindElementByCriteria(ui_state,
                << [type |-> <<"E","d","i","t","T","e","x","t">>], [type |-> <<"T","e","x","t","F","i","e","l","d">>],
                   [class_contains |-> <<"E","d","i","t","T","e","x","t">>] >>)
        text_to_type == <<"t","e","s","t"," ","t","e","x","t">>
    IN  IF input_element # <<>>
        THEN <<[action_type |-> "type",
                target_element |-> input_element[1],
                text |-> text_to_type,
                description |-> <<"T","y","p","e"," ","'">> \o text_to_type \o <<"'"," ","i","n","t","o"," ","i","n","p","u","t"," ","f","i","e","l","d">>]>>
        ELSE <<>>

\* ExecutorAgent._extract_locate_target
ExtractLocateTarget(description) ==
    IF Contains(<<"w","i","f","i">>, Lower(description)) THEN <<"W","i","F","i"," ","o","p","t","i","o","n">>
    ELSE IF Contains(<<"s","e","t","t","i","n","g","s">>, Lower(description)) THEN <<"S","e","t","t","i","n","g","s"," ","e","l","e","m","e","n","t","s">>
    ELSE <<"T","a","r","g","e","t"," ","e","l","e","m","e","n","t">>

\* ExecutorAgent._plan_locate_action
PlanLocateAction(action, description, ui_state) ==
    <<[action_type |-> "screenshot",
       description |-> <<"T","a","k","e"," ","s","c","r","e","e","n","s","h","o","t"," ","t","o"," ","l","o","c","a","t","e"," ","e","l","e","m","e","n","t","s">>,
       locate_target |-> ExtractLocateTarget(description)]>>

\* ExecutorAgent._analyze_subgoal: the action plan, or None
AnalyzeSubgoal(subgoal, ui_state) ==
    LET action == Lower(Get(subgoal, "action", <<>>))
        action_type == Lower(Get(subgoal, "action_type", <<>>))
        description == Lower(Get(subgoal, "description", <<>>))
    IN  IF \/ action_type = <<"n","a","v","i","g","a","t","i","o","n">>
           \/ Contains(<<"o","p","e","n">>, action)
           \/ Contains(<<"n","a","v","i","g","a","t","e">>, action)
        THEN PlanNavigationAction(action, description, ui_state)
        ELSE IF \/ action_type = <<"t","o","u","c","h">>
                \/ Contains(<<"t","a","p">>, action)
                \/ Contains(<<"c","l","i","c","k">>, action)
        THEN PlanTouchAction(action, description, ui_state)
        ELSE IF \/ action_type = <<"v","e","r","i","f","y">>
                \/ Contains(<<"v","e","r","i","f","y">>, action)
                \/ Contains(<<"c","h","e","c","k">>, action)
        THEN PlanVerificationAction(action, description, ui_state)
        ELSE IF \/ action_type = <<"i","n","p","u","t">>
                \/ Contains(<<"t","y","p","e">>, action)
                \/ Contains(<<"e","n","t","e","r">>, action)
        THEN PlanInputAction(action, description, ui_state)
        ELSE IF action_type = <<"l","o","c","a","t","e">> \/ Contains(<<"f","i","n","d">>, action)
        THEN PlanLocateAction(action, description, ui_state)
        ELSE <<>>

\* ExecutorAgent._get_current_ui_state: android_env.current_observation when it
\* is set and not empty, else an observation without elements (its empty
\* 'activity_info' dict is the empty function)
GetCurrentUiState(current_observation) ==
    IF current_observation # <<>> THEN current_observation[1]
    ELSE [ui_elements |-> <<>>, activity_info |-> <<>>]

\* ExecutorAgent._create_execution_result (timestamp and duration are left
\* out).  ui_state is what _get_current_ui_state returns at this point.
CreateExecutionResult(success, subgoal, action_plan, env_result, message, error, ui_state) ==
    [success |-> success,
     subgoal_id |-> Get(subgoal, "step_id", 0),
     subgoal_action |-> Get(subgoal, "action", <<>>)]
    @@ (IF action_plan # <<>> THEN [action_plan |-> action_plan[1]] ELSE <<>>)
    @@ (IF env_result # <<>> THEN [env_result |-> env_result[1]] ELSE <<>>)
    @@ (IF message # <<>> THEN [message |-> message] ELSE <<>>)
    @@ (IF error # <<>> THEN [error |-> error] ELSE <<>>)
    @@ (IF success THEN [ui_state_after |-> ui_state] ELSE <<>>)

\* the android_action _execute_action_plan hands to android_env.step
AndroidAction(action_plan) ==
    [action_type |-> action_plan.action_type]
    @@ (IF action_plan.action_type = "touch"
        THEN [coordinates |-> action_plan.coordinates]
        ELSE IF action_plan.action_type = "type"
        THEN [text |-> action_plan.text]
        ELSE <<>>)

\* ExecutorAgent._execute_action_plan.  step is what android_env.step does
\* with the action: it raises (step.raises, with the text of the exception),
\* or returns step.env_result; observation_after is
\* android_env.current_observation once it has returned.
ExecuteActionPlan(action_plan, subgoal, step, observation_after) ==
    IF step.raises
    THEN CreateExecutionResult(FALSE, subgoal, <<action_plan>>, <<>>, <<>>,
             <<"A","c","t","i","o","n"," ","e","x","e","c","u","t","i","o","n"," ","e","x","c","e","p","t","i","o","n",":"," ">> \o step.text,
             GetCurrentUiState(observation_after))
    ELSE LET env_result == step.env_result
             action_result == Get(env_result, "action_result", <<>>)
             action_success == Get(action_result, "success", FALSE)
         IN  IF action_success
             THEN CreateExecutionResult(TRUE, subgoal, <<action_plan>>, <<env_result>>,
                      <<"A","c","t","i","o","n"," ","e","x","e","c","u","t","e","d"," ","s","u","c","c","e","s","s","f","u","l","l","y">>, <<>>,
                      GetCurrentUiState(observation_after))
             ELSE CreateExecutionResult(FALSE, subgoal, <<action_plan>>, <<env_result>>,
                      <<>>,
                      <<"A","n","d","r","o","i","d"," ","a","c","t","i","o","n"," ","f","a","i","l","e","d",":"," ">>
                          \o Get(action_result, "error", <<"U","n","k","n","o","w","n"," ","e","r","r","o","r">>),
                      GetCurrentUiState(observation_after))

\* ExecutorAgent.execute_subgoal: the exception that leaves it (or "none"),
\* the result it returns, and the actions it handed to android_env.step.
\* current_observation is android_env.current_observation when it is called.
\* The print before the try reads subgoal['description'].
ExecuteSubgoal(subgoal, current_observation, step, observation_after) ==
    IF "description" \notin DOMAIN subgoal
    THEN [raised |-> "KeyError", driver |-> <<>>]
    ELSE LET current_ui_state == GetCurrentUiState(current_observation)
             action_plan == AnalyzeSubgoal(subgoal, current_ui_state)
         IN  IF action_plan = <<>>
             THEN [raised |-> "none",
                   result |-> CreateExecutionResult(FALSE, subgoal, <<>>, <<>>, <<>>,
                                  <<"C","o","u","l","d"," ","n","o","t"," ","d","e","t","e","r","m","i","n","e"," ","a","c","t","i","o","n"," ","p","l","a","n"," ","f","o","r"," ","s","u","b","g","o","a","l">>,
                                  current_ui_state),
                   driver |-> <<>>]
             ELSE [raised |-> "none",
                   result |-> ExecuteActionPlan(action_plan[1], subgoal, step,
                                                observation_after),
                   driver |-> <<AndroidAction(action_plan[1])>>]

(***************************************************************************)
(* src/multi_agent_qa: the second PlannerAgent                             *)
(***************************************************************************)
\* PlannerAgent.replan of multi_agent_qa: error_context.get("error_type",
\* "unknown") chooses between two built-in lists
Replan(failed_step, error_context) ==
    IF Get(error_context, "error_type", <<"u","n","k","n","o","w","n">>) = <<"e","l","e","m","e","n","t","_","n","o","t","_","f","o","u","n","d">>
    THEN << [step_id |-> 99,
             action |-> <<"t","a","k","e","_","s","c","r","e","e","n","s","h","o","t">>,
             description |-> <<"C","a","p","t","u","r","e"," ","c","u","r","r","e","n","t"," ","s","c","r","e","e","n"," ","f","o","r"," ","a","n","a","l","y","s","i","s">>,
             expected_result |-> <<"S","c","r","e","e","n","s","h","o","t"," ","c","a","p","t","u","r","e","d">>,
             verification_criteria |-> << <<"I","m","a","g","e"," ","s","a","v","e","d">> >>,
             action_type |-> <<"c","a","p","t","u","r","e">>,
             timeout |-> 5],
            [step_id |-> 100,
             action |-> <<"i","d","e","n","t","i","f","y","_","c","u","r","r","e","n","t","_","s","c","r","e","e","n">>,
             description |-> <<"D","e","t","e","r","m","i","n","e"," ","w","h","a","t"," ","s","c","r","e","e","n"," ","w","e","'","r","e"," ","c","u","r","r","e","n","t","l","y"," ","o","n">>,
             expected_result |-> <<"S","c","r","e","e","n"," ","i","d","e","n","t","i","f","i","e","d">>,
             verification_criteria |-> << <<"S","c","r","e","e","n"," ","t","y","p","e"," ","d","e","t","e","r","m","i","n","e","d">> >>,
             action_type |-> <<"a","n","a","l","y","s","i","s">>,
             timeout |-> 5] >>
    ELSE << [step_id |-> 99,
             action |-> <<"g","o","_","b","a","c","k">>,
             description |-> <<"G","o"," ","b","a","c","k"," ","t","o"," ","p","r","e","v","i","o","u","s"," ","s","c","r","e","e","n">>,
             expected_result |-> <<"P","r","e","v","i","o","u","s"," ","s","c","r","e","e","n"," ","d","i","s","p","l","a","y","e","d">>,
             verification_criteria |-> << <<"K","n","o","w","n"," ","s","c","r","e","e","n"," ","v","i","s","i","b","l","e">> >>,
             action_type |-> <<"n","a","v","i","g","a","t","i","o","n">>,
             timeout |-> 5] >>

(***************************************************************************)
(* Functions called on their own: the arguments are drawn from pools, the  *)
(* call returns once.                                                      *)
(***************************************************************************)
\* subgoals handed to execute_subgoal: steps of the built-in plans of
\* multi_agent_qa/agents/planner_agent.py (with the keys the Executor reads),
\* and one for each remaining branch of _analyze_subgoal and of
\* _get_fallback_coordinates
SubgoalPool ==
    { [step_id |-> 1, action |-> <<"o","p","e","n","_","s","e","t","t","i","n","g","s","_","a","p","p">>,
       description |-> <<"N","a","v","i","g","a","t","e"," ","t","o"," ","A","n","d","r","o","i","d"," ","S","e","t","t","i","n","g","s"," ","a","p","p","l","i","c","a","t","i","o","n">>,
       action_type |-> <<"n","a","v","i","g","a","t","i","o","n">>],
      [step_id |-> 2, action |-> <<"f","i","n","d","_","w","i","f","i","_","o","p","t","i","o","n">>,
       description |-> <<"L","o","c","a","t","e"," ","W","i","F","i"," ","s","e","t","t","i","n","g","s"," ","o","p","t","i","o","n"," ","i","n"," ","S","e","t","t","i","n","g","s"," ","m","e","n","u">>,
       action_type |-> <<"l","o","c","a","t","e">>],
      [step_id |-> 3, action |-> <<"t","a","p","_","w","i","f","i","_","o","p","t","i","o","n">>,
       description |-> <<"T","a","p"," ","o","n"," ","W","i","F","i"," ","s","e","t","t","i","n","g","s"," ","o","p","t","i","o","n">>,
       action_type |-> <<"t","o","u","c","h">>],
      [step_id |-> 4, action |-> <<"c","h","e","c","k","_","c","u","r","r","e","n","t","_","w","i","f","i","_","s","t","a","t","e">>,
       description |-> <<"D","e","t","e","r","m","i","n","e"," ","c","u","r","r","e","n","t"," ","W","i","F","i"," ","t","o","g","g","l","e"," ","s","t","a","t","e"," ","(","o","n","/","o","f","f",")">>,
       action_type |-> <<"v","e","r","i","f","y">>],
      [step_id |-> 5, action |-> <<"t","o","g","g","l","e","_","w","i","f","i","_","o","f","f">>,
       description |-> <<"T","u","r","n"," ","W","i","F","i"," ","o","f","f"," ","i","f"," ","c","u","r","r","e","n","t","l","y"," ","o","n">>,
       action_type |-> <<"t","o","u","c","h">>],
      [step_id |-> 99, action |-> <<"g","o","_","b","a","c","k">>,
       description |-> <<"G","o"," ","b","a","c","k"," ","t","o"," ","p","r","e","v","i","o","u","s"," ","s","c","r","e","e","n">>,
       action_type |-> <<"n","a","v","i","g","a","t","i","o","n">>],
      [step_id |-> 99, action |-> <<"t","a","k","e","_","s","c","r","e","e","n","s","h","o","t">>,
       description |-> <<"C","a","p","t","u","r","e"," ","c","u","r","r","e","n","t"," ","s","c","r","e","e","n"," ","f","o","r"," ","a","n","a","l","y","s","i","s">>,
       action_type |-> <<"c","a","p","t","u","r","e">>],
      [step_id |-> 1, action |-> <<"o","p","e","n","_","c","l","o","c","k","_","a","p","p">>,
       description |-> <<"O","p","e","n"," ","t","h","e"," ","C","l","o","c","k"," ","a","p","p","l","i","c","a","t","i","o","n">>,
       action_type |-> <<"n","a","v","i","g","a","t","i","o","n">>],
      [step_id |-> 6, action |-> <<"g","o","_","h","o","m","e">>,
       description |-> <<"R","e","t","u","r","n"," ","t","o"," ","t","h","e"," ","h","o","m","e"," ","s","c","r","e","e","n">>,
       action_type |-> <<"n","a","v","i","g","a","t","i","o","n">>],
      [step_id |-> 7, action |-> <<"t","a","p","_","t","o","g","g","l","e">>,
       description |-> <<"F","l","i","p"," ","t","h","e"," ","s","w","i","t","c","h">>,
       action_type |-> <<"t","o","u","c","h">>],
      [step_id |-> 8, action |-> <<"t","a","p","_","o","k">>,
       description |-> <<"C","o","n","f","i","r","m"," ","t","h","e"," ","d","i","a","l","o","g">>],
      [step_id |-> 9, action |-> <<"e","n","t","e","r","_","t","e","x","t">>,
       description |-> <<"T","y","p","e"," ","t","h","e"," ","n","e","t","w","o","r","k"," ","n","a","m","e">>,
       action_type |-> <<"i","n","p","u","t">>] }

\* the observation AndroidEnvWrapper.reset builds in mock mode.  screen_width
\* and screen_height are the size of the screen an observation was taken
\* from; no code of multi_agent_qa reads them.
UiHome ==
    [ui_elements |->
        << [id |-> <<"s","e","t","t","i","n","g","s","_","i","c","o","n">>, text |-> <<"S","e","t","t","i","n","g","s">>, bounds |-> <<100, 200, 200, 300>>],
           [id |-> <<"h","o","m","e","_","b","u","t","t","o","n">>, text |-> <<"H","o","m","e">>, bounds |-> <<400, 800, 500, 900>>] >>,
     screen_width |-> 1080, screen_height |-> 1920]

\* the WiFi settings screen of _get_updated_observation, with a text field
UiWifi ==
    [ui_elements |->
        << [id |-> <<"w","i","f","i","_","t","o","g","g","l","e">>, text |-> <<"W","i","F","i"," ","T","o","g","g","l","e">>, bounds |-> <<300, 100, 400, 150>>],
           [id |-> <<"n","e","t","w","o","r","k","_","n","a","m","e">>, type |-> <<"E","d","i","t","T","e","x","t">>, bounds |-> <<50, 200, 350, 260>>],
           [id |-> <<"b","a","c","k","_","b","u","t","t","o","n">>, text |-> <<"B","a","c","k">>, bounds |-> <<20, 50, 80, 100>>] >>,
     screen_width |-> 480, screen_height |-> 800]

\* a screen whose only elements have no bounds, or bounds of two numbers
UiBare ==
    [ui_elements |->
        << [id |-> <<"s","e","t","t","i","n","g","s","_","r","o","w">>, text |-> <<"S","e","t","t","i","n","g","s">>],
           [id |-> <<"w","i","f","i","_","s","w","i","t","c","h">>, text |-> <<"W","i","-","F","i">>, bounds |-> <<30, 40>>] >>,
     screen_width |-> 320, screen_height |-> 480]

\* a screen without elements
UiEmpty == [ui_elements |-> <<>>, screen_width |-> 480, screen_height |-> 800]

UiStatePool == {UiHome, UiWifi, UiBare, UiEmpty}

\* the screen of test_executor_agent's MockAndroidEnv
UiMock ==
    [ui_elements |->
        << [id |-> <<"s","e","t","t","i","n","g","s","_","i","c","o","n">>, text |-> <<"S","e","t","t","i","n","g","s">>, bounds |-> <<100, 200, 200, 300>>],
           [id |-> <<"w","i","f","i","_","o","p","t","i","o","n">>, text |-> <<"W","i","F","i">>, bounds |-> <<50, 350, 350, 400>>],
           [id |-> <<"w","i","f","i","_","t","o","g","g","l","e">>, text |-> <<"T","o","g","g","l","e">>, bounds |-> <<300, 100, 400, 150>>] >>]

\* a screen whose first element has "wifi" in its id only
UiMixed ==
    [ui_elements |->
        << [id |-> <<"w","i","f","i","_","r","o","w">>, text |-> <<"N","e","t","w","o","r","k">>, bounds |-> <<0, 100, 480, 180>>],
           [id |-> <<"s","w","i","t","c","h","_","1">>, text |-> <<"W","i","-","F","i"," ","t","o","g","g","l","e">>, bounds |-> <<300, 200, 400, 250>>] >>]

\* criteria lists: none, one or two of the criteria _plan_touch_action
\* builds, in any order, and the list of _plan_input_action
CriteriaPool ==
    LET criteria == { [text_contains |-> <<"w","i","f","i">>], [text_contains |-> <<"t","o","g","g","l","e">>],
                      [id_contains |-> <<"w","i","f","i">>], [id_contains |-> <<"s","e","t","t","i","n","g","s">>] }
    IN  { <<>>, << [type |-> <<"E","d","i","t","T","e","x","t">>], [type |-> <<"T","e","x","t","F","i","e","l","d">>],
                   [class_contains |-> <<"E","d","i","t","T","e","x","t">>] >> }
        \cup { <<c>> : c \in criteria }
        \cup { <<c, d>> : c \in criteria, d \in criteria }

\* what android_env.step does with an action
DriverStepPool ==
    { [raises |-> FALSE, env_result |-> [action_result |-> [success |-> TRUE]]],
      [raises |-> FALSE,
       env_result |-> [action_result |-> [success |-> FALSE,
                                          error |-> <<"U","n","k","n","o","w","n"," ","a","c","t","i","o","n"," ","t","y","p","e",":"," ","c","a","p","t","u","r","e">>]]],
      [raises |-> TRUE, text |-> <<"d","e","v","i","c","e"," ","o","f","f","l","i","n","e">>] }

\* what env.step returns to _execute_tap when it returns (the function does
\* not read it)
DriverAnswerPool == {step.env_result : step \in {s \in DriverStepPool : ~s.raises}}

\* the steps and error contexts handed to replan
ErrorContextPool ==
    { [error_type |-> <<"e","l","e","m","e","n","t","_","n","o","t","_","f","o","u","n","d">>],
      [error_type |-> <<"t","i","m","e","o","u","t">>],
      [current_state |-> <<"s","e","t","t","i","n","g","s","_","m","a","i","n">>] }

\* largest absolute value of a component of an element's bounds, for the
\* calls of the functions that compute a tap point
MaxCoord == 2

Coords == (0 - MaxCoord)..MaxCoord

\* the bounds of an element: four numbers, or fewer
BoundsPool ==
    {<<l, t, r, b>> : l \in Coords, t \in Coords, r \in Coords, b \in Coords}
    \cup {<<>>, <<0, 1>>}

S_OK == <<"O","K">>

\* targets of a tap
TapTargetPool == { <<"S","e","t","t","i","n","g","s">>, <<"W","i","F","i">>, <<"B","a","c","k"," ","b","u","t","t","o","n">>, <<"H","o","m","e"," ","b","u","t","t","o","n">> }

\* observations of a screen of some size
SizedObservationPool ==
    { [ui_tree |-> tree] @@ size :
        tree \in {TreeHome, TreeBlank},
        size \in { [screen_height |-> 800, screen_width |-> 480],
                   [screen_height |-> 1921, screen_width |-> 1081],
                   [screen_height |-> 1920] } }

\* targets of a scroll
ScrollTargetPool == { <<>>, <<"S","e","t","t","i","n","g","s"," ","l","i","s","t">>, <<"W","i","F","i"," ","t","o","g","g","l","e"," ","s","w","i","t","c","h">> }

\* the expectations of the built-in plans and of the steps of StepPool
ExpectationPool ==
    {DefaultWifiTestPlan[i].verification : i \in 1..Len(DefaultWifiTestPlan)}
    \cup {SimpleRecoveryPlan[i].verification : i \in 1..Len(SimpleRecoveryPlan)}
    \cup {step.verification : step \in StepPool}

\* a screen that shows the state of the switch in words
TreeOff ==
    [text |-> <<"N","e","t","w","o","r","k">>,
     children |-> << [text |-> <<"W","i","F","i">>, content_desc |-> <<"S","w","i","t","c","h"," ","i","s"," ","O","F","F">>] >>]

TreePool == {TreeHome, TreeBlank, TreeOff}

\* the max_depth parse_ui_tree has when it is called without one
DefaultMaxDepth == 10

\* whether a value is true as Python tests it: a non-empty str or list
NonEmpty(v) == v # <<>> /\ v # NoneVal

\* AndroidHelper.parse_ui_tree: traverse(node, depth) appends the element of
\* the node when it has a text, content-desc or resource-id, then traverses
\* the children; it returns at once when depth > max_depth
RECURSIVE Traverse(_, _, _)
RECURSIVE TraverseChildren(_, _, _)
Traverse(node, depth, max_depth) ==
    IF depth > max_depth THEN <<>>
    ELSE LET element == [depth |-> depth,
                         class |-> Get(node, "class", <<>>),
                         text |-> Get(node, "text", <<>>),
                         content_desc |-> Get(node, "content_desc", <<>>),
                         resource_id |-> Get(node, "resource_id", <<>>),
                         bounds |-> Get(node, "bounds", <<>>),
                         clickable |-> Get(node, "clickable", FALSE),
                         scrollable |-> Get(node, "scrollable", FALSE)]
         IN  (IF \/ NonEmpty(element.text) \/ NonEmpty(element.content_desc)
                 \/ NonEmpty(element.resource_id)
              THEN <<element>> ELSE <<>>)
             \o TraverseChildren(Get(node, "children", <<>>), depth + 1, max_depth)

TraverseChildren(children, depth, max_depth) ==
    IF children = <<>> THEN <<>>
    ELSE Traverse(Head(children), depth, max_depth)
         \o TraverseChildren(Tail(children), depth, max_depth)

ParseUiTree(ui_tree, max_depth) == Traverse(ui_tree, 0, max_depth)

\* the deepest tree handed to parse_ui_tree
MaxTreeDepth == 12

\* a tree that is one path from depth k down to depth d: the nodes at even
\* depth have a text, those at odd depth nothing that identifies them, and
\* the last node has a resource-id
RECURSIVE PathTree(_, _)
PathTree(k, d) ==
    IF k = d THEN [resource_id |-> <<"l","e","a","f">>, bounds |-> <<0, 0, 10, 10>>]
    ELSE IF k % 2 = 0 THEN [text |-> <<"r","o","w">>, children |-> <<PathTree(k + 1, d)>>]
    ELSE [class |-> <<"F","r","a","m","e","L","a","y","o","u","t">>, children |-> <<PathTree(k + 1, d)>>]

\* the trees handed to parse_ui_tree
ParseTreePool == TreePool \cup {PathTree(0, d) : d \in 0..MaxTreeDepth}

CallInit ==
    /\ \/ \E response \in PlanResponses, goal \in Goals :
             call = [fn |-> "_create_test_plan", goal |-> goal, response |-> response]
       \/ \E response \in PlanResponses, tree \in TreePool :
             call = [fn |-> "_adapt_plan", original_goal |-> NoneVal,
                     current_state |-> tree,
                     error |-> <<"I","n","v","a","l","i","d"," ","e","l","e","m","e","n","t"," ","b","o","u","n","d","s">>, response |-> response]
       \/ \E failed_step \in SubgoalPool, error_context \in ErrorContextPool :
             call = [fn |-> "replan", failed_step |-> failed_step,
                     error_context |-> error_context]
       \/ \E subgoal \in SubgoalPool, ui_state \in UiStatePool :
             call = [fn |-> "_analyze_subgoal", subgoal |-> subgoal, ui_state |-> ui_state]
       \/ \E subgoal \in SubgoalPool, ui_state \in UiStatePool, step \in DriverStepPool :
             \/ call = [fn |-> "execute_subgoal", subgoal |-> subgoal,
                        current_observation |-> <<ui_state>>, step |-> step,
                        observation_after |-> <<UiWifi>>]
             \/ /\ ui_state = UiEmpty
                /\ call = [fn |-> "execute_subgoal", subgoal |-> subgoal,
                           current_observation |-> <<>>, step |-> step,
                           observation_after |-> <<>>]
       \/ \E bounds \in BoundsPool :
             \/ call = [fn |-> "_get_element_center",
                        element |-> [text |-> S_OK, bounds |-> bounds]]
             \/ call = [fn |-> "_execute_tap", target |-> S_OK,
                        observation |-> [ui_tree |-> [text |-> S_OK, bounds |-> bounds]]]
       \/ \E target \in TapTargetPool, observation \in SizedObservationPool,
             answer \in DriverAnswerPool :
             call = [fn |-> "_execute_tap", target |-> target, observation |-> observation,
                     driver |-> answer]
       \/ \E target \in ScrollTargetPool, observation \in SizedObservationPool \cup ObservationPool :
             call = [fn |-> "_execute_scroll", target |-> target, observation |-> observation]
       \/ \E expected \in ExpectationPool, ui_tree \in TreePool :
             call = [fn |-> "_heuristic_verification", expected |-> expected,
                     ui_tree |-> ui_tree]
       \/ \E expected \in ExpectationPool, ui_tree \in TreePool,
             response \in JudgmentResponses :
             call = [fn |-> "_verify_step_outcome", expected |-> expected,
                     ui_tree |-> ui_tree, response |-> response]
       \/ \E test_data \in TestDataPool :
             call = [fn |-> "_generate_test_report", test_data |-> test_data]
       \/ \E ui_tree \in ParseTreePool :
             call = [fn |-> "parse_ui_tree", ui_tree |-> ui_tree]
       \/ \E ui_state \in UiStatePool \cup {UiMock, UiMixed}, criteria_list \in CriteriaPool :
             call = [fn |-> "_find_element_by_criteria", ui_state |-> ui_state,
                     criteria_list |-> criteria_list]
       \/ \E expected \in ExpectationPool, ui_tree \in TreePool :
             call = [fn |-> "_heuristic_verification twice", expected |-> expected,
                     ui_tree |-> ui_tree, snapshot |-> ui_tree]
    /\ ret = <<>>
    /\ \E goal \in Goals :
          current_message = SendMessage("System", "PlannerAgent", "create_plan",
                                        [goal |-> goal])
    /\ iteration = 0
    /\ Constructed
    /\ outcome = "running"
    /\ invoked = <<>>
    /\ events = <<>>
    /\ verification_results = <<>>
    /\ llm_calls = {}
    /\ recovery = <<>>
    /\ abandoned = 0
    /\ fold_result = "unset"

\* the call of function fn returns v
Returns(fn, v) ==
    /\ call.fn = fn
    /\ ret = <<>>
    /\ ret' = <<v>>
    /\ UNCHANGED <<current_message, iteration, outcome, invoked, events,
                   verification_results, llm_calls, recovery, abandoned,
                   fold_result, call, objvars>>

CallCreateTestPlan ==
    /\ call.fn = "_create_test_plan"
    /\ Returns("_create_test_plan", CreateTestPlan(call.goal, call.response))

CallAdaptPlan ==
    /\ call.fn = "_adapt_plan"
    /\ Returns("_adapt_plan", AdaptPlan(call.original_goal, call.current_state,
                                        call.error, call.response))

CallReplan ==
    /\ call.fn = "replan"
    /\ Returns("replan", Replan(call.failed_step, call.error_context))

CallAnalyzeSubgoal ==
    /\ call.fn = "_analyze_subgoal"
    /\ Returns("_analyze_subgoal", AnalyzeSubgoal(call.subgoal, call.ui_state))

CallExecuteSubgoal ==
    /\ call.fn = "execute_subgoal"
    /\ Returns("execute_subgoal",
               ExecuteSubgoal(call.subgoal, call.current_observation, call.step,
                              call.observation_after))

CallGetElementCenter ==
    /\ call.fn = "_get_element_center"
    /\ Returns("_get_element_center", GetElementCenter(call.element))

CallExecuteTap ==
    /\ call.fn = "_execute_tap"
    /\ Returns("_execute_tap", ExecuteTap(call.target, call.observation))

CallExecuteScroll ==
    /\ call.fn = "_execute_scroll"
    /\ Returns("_execute_scroll", ExecuteScroll(call.target, call.observation))

CallHeuristicVerification ==
    /\ call.fn = "_heuristic_verification"
    /\ Returns("_heuristic_verification",
               HeuristicVerification(call.expected, call.ui_tree))

\* _heuristic_verification called, and called again, on the same expected
\* and the same ui_tree object; call.snapshot keeps the value the object had
\* before the first call
CallHeuristicVerificationTwice ==
    /\ call.fn = "_heuristic_verification twice"
    /\ Len(ret) < 2
    /\ ret' = Append(ret, HeuristicVerification(call.expected, call.ui_tree))
    /\ call' = [call EXCEPT !.ui_tree = TreeAfterExtract(@)]
    /\ UNCHANGED <<current_message, iteration, outcome, invoked, events,
                   verification_results, llm_calls, recovery, abandoned,
                   fold_result, objvars>>

CallFindElementByCriteria ==
    /\ call.fn = "_find_element_by_criteria"
    /\ Returns("_find_element_by_criteria",
               FindElementByCriteria(call.ui_state, call.criteria_list))

\* parse_ui_tree(ui_tree), as find_element_by_text calls it
CallParseUiTree ==
    /\ call.fn = "parse_ui_tree"
    /\ Returns("parse_ui_tree", ParseUiTree(call.ui_tree, DefaultMaxDepth))

CallVerifyStepOutcome ==
    /\ call.fn = "_verify_step_outcome"
    /\ Returns("_verify_step_outcome",
               VerifyStepOutcome(call.expected, call.ui_tree, call.response))

\* _generate_test_report called on its own: it ends in the exception
CallGenerateTestReport ==
    /\ call.fn = "_generate_test_report"
    /\ Returns("_generate_test_report",
               [raised |-> GenerateTestReportRaises(call.test_data)])

CallNext ==
    \/ CallGenerateTestReport
    \/ CallParseUiTree
    \/ CallFindElementByCriteria
    \/ CallHeuristicVerificationTwice
    \/ CallCreateTestPlan
    \/ CallAdaptPlan
    \/ CallReplan
    \/ CallAnalyzeSubgoal
    \/ CallExecuteSubgoal
    \/ CallGetElementCenter
    \/ CallExecuteTap
    \/ CallExecuteScroll
    \/ CallHeuristicVerification
    \/ CallVerifyStepOutcome

CallSpec == CallInit /\ [][CallNext]_vars

(***************************************************************************)
(* run_test with a language model whose answers never parse: the plans are *)
(* the built-in ones and the verdicts the heuristic's.  The screens show   *)
(* every element the built-in plans tap.                                   *)
(***************************************************************************)
\* the WiFi settings screen with the switch on
TreeWifiOn ==
    [text |-> <<"S","e","t","t","i","n","g","s"," ","a","p","p">>, bounds |-> <<0, 0, 480, 80>>,
     children |->
        << [text |-> <<"W","i","F","i"," ","o","r"," ","N","e","t","w","o","r","k"," ","o","p","t","i","o","n">>, bounds |-> <<0, 100, 480, 180>>],
           [text |-> <<"W","i","F","i"," ","t","o","g","g","l","e"," ","s","w","i","t","c","h">>, content_desc |-> <<"O","N">>,
            bounds |-> <<300, 200, 400, 250>>],
           [text |-> <<"W","i","F","i"," ","n","e","t","w","o","r","k","s"," ","a","p","p","e","a","r">>, bounds |-> <<0, 300, 480, 700>>] >>]

\* the same screen with the switch off
TreeWifiOff ==
    [text |-> <<"S","e","t","t","i","n","g","s"," ","a","p","p">>, bounds |-> <<0, 0, 480, 80>>,
     children |->
        << [text |-> <<"W","i","F","i"," ","o","r"," ","N","e","t","w","o","r","k"," ","o","p","t","i","o","n">>, bounds |-> <<0, 100, 480, 180>>],
           [text |-> <<"W","i","F","i"," ","t","o","g","g","l","e"," ","s","w","i","t","c","h">>, content_desc |-> <<"O","F","F">>,
            bounds |-> <<300, 200, 400, 250>>] >>]

\* what env.observe() may return during such a run
WifiScreens ==
    { [ui_tree |-> TreeWifiOn, screen_height |-> 800, screen_width |-> 480],
      [ui_tree |-> TreeWifiOff, screen_height |-> 800, screen_width |-> 480],
      [ui_tree |-> TreeBlank] }

\* llm_client.generate answers text that is not JSON
Unparsable == {[parses |-> FALSE]}

WifiPlannerCreatePlan == PlannerCreatePlanWith(Unparsable)

WifiPlannerReplan == PlannerReplanWith(Unparsable)

WifiExecutorProcess == ExecutorProcessOn(WifiScreens)

\* No step of a built-in plan makes _execute_plan raise (their only wait has
\* the target "2 seconds", and none is a 'type'), so ExecutorRaises has no
\* step here.
WifiNext ==
    \/ WifiPlannerCreatePlan
    \/ WifiPlannerReplan
    \/ WifiExecutorProcess
    \/ VerifierReplan
    \/ VerifierRaises
    \/ VerifierCompleted
    \/ SupervisorProcess
    \/ LoopEnds

WifiSpec == Init /\ [][WifiNext]_vars

(***************************************************************************)
(* One SupervisorAgent shared by the threads of several runs: each thread  *)
(* calls process() with the message its run's Verifier sent, and           *)
(* generate_final_report() is called at any time                           *)
(***************************************************************************)
\* how many threads call process() of the shared SupervisorAgent
NumRuns == 2

\* the messages a thread hands to process(): "test_completed", or another
\* type, for which process() has no branch
SupervisorMessagePool ==
    { SendMessage("VerifierAgent", "SupervisorAgent", message_type, test_data) :
        message_type \in {"test_completed", "status_update"},
        test_data \in TestDataPool }

\* SupervisorAgent.generate_final_report; pass_rate is the quotient num/den
GenerateFinalReport(history) ==
    IF history = <<>> THEN [error |-> <<"N","o"," ","t","e","s","t","s"," ","h","a","v","e"," ","b","e","e","n"," ","r","u","n"," ","y","e","t">>]
    ELSE LET total_tests == Len(history)
             passed_tests == Cardinality({i \in 1..Len(history) :
                                            history[i].overall_status = "PASSED"})
             bugs[i \in 0..Len(history)] ==
                 IF i = 0 THEN 0 ELSE bugs[i - 1] + Len(history[i].bugs_found)
         IN  [total_tests_run |-> total_tests,
              pass_rate |-> [num |-> passed_tests, den |-> total_tests],
              total_bugs_found |-> bugs[Len(history)],
              test_history |-> history]

AggInit ==
    /\ threads \in [1..NumRuns -> {[message |-> m, pc |-> "called", raised |-> "none"] :
                                     m \in SupervisorMessagePool}]
    /\ test_history = <<>>
    /\ final_report = <<>>
    /\ wrapper = [task_name |-> "settings_wifi", current_observation |-> <<>>,
                 step_count |-> 0]
    /\ step_result = <<>>
    /\ \E goal \in Goals :
          current_message = SendMessage("System", "PlannerAgent", "create_plan",
                                        [goal |-> goal])
    /\ iteration = 0
    /\ outcome = "running"
    /\ invoked = <<>>
    /\ events = <<>>
    /\ verification_results = <<>>
    /\ llm_calls = {}
    /\ recovery = <<>>
    /\ abandoned = 0
    /\ fold_result = "unset"
    /\ call = NoCall
    /\ ret = <<>>

\* what an Agg action leaves alone
aggframe == <<current_message, iteration, outcome, invoked, events,
              verification_results, llm_calls, recovery, abandoned, fold_result,
              call, ret, wrapper, step_result>>

\* thread t runs process() on a "test_completed" message: the first statement,
\* _generate_test_report, raises, so the thread never reaches
\* self.test_history.append(report) nor send_message
ThreadProcessRaises(t) ==
    /\ threads[t].pc = "called"
    /\ threads[t].message.message_type = "test_completed"
    /\ threads' = [threads EXCEPT ![t].pc = "done",
                       ![t].raised = GenerateTestReportRaises(threads[t].message.content)]
    /\ UNCHANGED <<test_history, final_report, aggframe>>

\* thread t runs process() on a message of another type: no branch is taken
\* and process() returns None
ThreadProcessIgnores(t) ==
    /\ threads[t].pc = "called"
    /\ threads[t].message.message_type # "test_completed"
    /\ threads' = [threads EXCEPT ![t].pc = "done"]
    /\ UNCHANGED <<test_history, final_report, aggframe>>

\* generate_final_report() is called
FinalReport ==
    /\ final_report' = <<GenerateFinalReport(test_history)>>
    /\ UNCHANGED <<test_history, threads, aggframe>>

AggNext ==
    \/ \E t \in 1..NumRuns : ThreadProcessRaises(t)
    \/ \E t \in 1..NumRuns : ThreadProcessIgnores(t)
    \/ FinalReport

AggSpec == AggInit /\ [][AggNext]_vars

(***************************************************************************)
(* src/multi_agent_qa/main.py: AndroidEnvWrapper in mock mode.  The        *)
(* 'screenshot' file name and the 'timestamp' of an observation are left   *)
(* out.                                                                    *)
(***************************************************************************)
\* how many step() calls a wrapper gets
MaxSteps == 51

\* _check_task_completion: the "settings_wifi" task is complete at this step_count
TaskCompleteSteps == 8

\* AndroidEnvWrapper.max_steps
WrapperMaxSteps == 50

\* the task_name a wrapper is constructed with: the default and another one
TaskNames == {"settings_wifi", "settings_bluetooth"}

\* AndroidEnvWrapper._check_task_completion at step_count = count
CheckTaskCompletion(task_name, count) ==
    IF task_name = "settings_wifi" THEN count >= TaskCompleteSteps ELSE FALSE

\* str(n) for a natural number n
RECURSIVE DecimalOf(_)
DecimalOf(n) ==
    LET digit(k) == <<"0","1","2","3","4","5","6","7","8","9">>[k + 1]
    IN  IF n < 10 THEN <<digit(n)>> ELSE DecimalOf(n \div 10) \o <<digit(n % 10)>>

\* str(action.get("coordinates", [])): a str is itself, a list of two numbers
\* is "[x, y]", the default is "[]"
StrOfCoordinates(action) ==
    IF "coordinates" \notin DOMAIN action THEN <<"[", "]">>
    ELSE IF action.coordinates.is_text THEN action.coordinates.text
    ELSE <<"[">> \o DecimalOf(action.coordinates.point[1]) \o <<",", " ">>
                 \o DecimalOf(action.coordinates.point[2]) \o <<"]">>

\* the 'coordinates' of the actions: points, as test_android_env_wrapper
\* sends them, and texts
CoordinatesPool ==
    { [is_text |-> FALSE, point |-> <<150, 250>>, text |-> <<>>],
      [is_text |-> TRUE, point |-> <<>>, text |-> <<"s","e","t","t","i","n","g","s","_","i","c","o","n">>],
      [is_text |-> TRUE, point |-> <<>>, text |-> <<"W","i","F","i">>] }

\* actions without 'coordinates', as the ExecutorAgent of multi_agent_qa
\* builds a screenshot action; "swipe" is a type step() does not know
PlainActions ==
    { [action_type |-> t] : t \in {<<"s","c","r","e","e","n","s","h","o","t">>, <<"S","C","R","E","E","N","S","H","O","T">>, <<"b","a","c","k">>, <<"s","w","i","p","e">>} }

\* actions that carry 'coordinates'
PointedActions ==
    { [action_type |-> t, coordinates |-> c] :
        t \in {<<"t","o","u","c","h">>, <<"s","c","r","e","e","n","s","h","o","t">>}, c \in CoordinatesPool }

\* the observation reset() builds
InitialObservation ==
    [ui_elements |-> << [id |-> "settings_icon", text |-> "Settings",
                         bounds |-> <<100, 200, 200, 300>>],
                        [id |-> "home_button", text |-> "Home",
                         bounds |-> <<400, 800, 500, 900>>] >>,
     activity_info |-> [current_app |-> "launcher", screen_type |-> "home"],
     step_count |-> 0]

\* AndroidEnvWrapper._execute_mock_action
ExecuteMockAction(action, count) ==
    LET action_type == Lower(Get(action, "action_type", <<>>))
        done(text, changed) == [success |-> TRUE, action_executed |-> action,
                                result |-> text, ui_changed |-> changed]
    IN  IF action_type = <<"t","o","u","c","h">>
        THEN done(<<"M","o","c","k"," ","t","o","u","c","h"," ","a","t"," ","c","o","o","r","d","i","n","a","t","e","s"," ">>
                      \o (IF "coordinates" \in DOMAIN action THEN StrOfCoordinates(action)
                          ELSE <<"[", "0", ",", " ", "0", "]">>), TRUE)
        ELSE IF action_type = <<"t","y","p","e">>
        THEN done(<<"M","o","c","k"," ","t","y","p","e","d"," ","t","e","x","t",":"," ","'">> \o Get(action, "text", <<>>) \o <<"'">>, TRUE)
        ELSE IF action_type = <<"b","a","c","k">> THEN done(<<"M","o","c","k"," ","b","a","c","k"," ","b","u","t","t","o","n"," ","p","r","e","s","s","e","d">>, TRUE)
        ELSE IF action_type = <<"h","o","m","e">> THEN done(<<"M","o","c","k"," ","h","o","m","e"," ","b","u","t","t","o","n"," ","p","r","e","s","s","e","d">>, TRUE)
        ELSE IF action_type = <<"s","c","r","e","e","n","s","h","o","t">>
        THEN done(<<"M","o","c","k"," ","s","c","r","e","e","n","s","h","o","t"," ","s","a","v","e","d",":"," ","s","t","e","p","_">> \o DecimalOf(count)
                      \o <<"_","s","c","r","e","e","n","s","h","o","t",".","p","n","g">>, FALSE)
        ELSE [success |-> FALSE, action_executed |-> action,
              error |-> <<"U","n","k","n","o","w","n"," ","a","c","t","i","o","n"," ","t","y","p","e",":"," ">> \o action_type,
              ui_changed |-> FALSE]

\* AndroidEnvWrapper._get_updated_observation; observation is
\* self.current_observation, <<>> for None, on which .get raises AttributeError
GetUpdatedObservation(action, observation, count) ==
    LET action_type == Get(action, "action_type", <<>>)
        updated(ui_elements, activity_info) ==
            [raised |-> "none",
             observation |-> [ui_elements |-> ui_elements,
                              activity_info |-> activity_info, step_count |-> count]]
    IN  IF action_type = <<"t","o","u","c","h">> /\ Contains(<<"s","e","t","t","i","n","g","s">>, StrOfCoordinates(action))
        THEN updated(<< [id |-> "wifi_option", text |-> "WiFi",
                         bounds |-> <<50, 200, 350, 250>>],
                        [id |-> "bluetooth_option", text |-> "Bluetooth",
                         bounds |-> <<50, 260, 350, 310>>],
                        [id |-> "back_button", text |-> "Back",
                         bounds |-> <<20, 50, 80, 100>>] >>,
                     [current_app |-> "settings", screen_type |-> "settings_main"])
        ELSE IF Contains(<<"w","i","f","i">>, Lower(StrOfCoordinates(action)))
        THEN updated(<< [id |-> "wifi_toggle", text |-> "WiFi Toggle",
                         bounds |-> <<300, 100, 400, 150>>],
                        [id |-> "network_list", text |-> "Available Networks",
                         bounds |-> <<50, 200, 350, 600>>],
                        [id |-> "back_button", text |-> "Back",
                         bounds |-> <<20, 50, 80, 100>>] >>,
                     [current_app |-> "settings", screen_type |-> "wifi_settings"])
        ELSE IF observation = <<>> THEN [raised |-> "AttributeError"]
        ELSE updated(observation[1].ui_elements, observation[1].activity_info)

EnvInit ==
    /\ \E task_name \in TaskNames :
          wrapper = [task_name |-> task_name, current_observation |-> <<>>,
                     step_count |-> 0]
    /\ step_result = <<>>
    /\ test_history = <<>>
    /\ threads = <<>>
    /\ final_report = <<>>
    /\ \E goal \in Goals :
          current_message = SendMessage("System", "PlannerAgent", "create_plan",
                                        [goal |-> goal])
    /\ iteration = 0
    /\ outcome = "running"
    /\ invoked = <<>>
    /\ events = <<>>
    /\ verification_results = <<>>
    /\ llm_calls = {}
    /\ recovery = <<>>
    /\ abandoned = 0
    /\ fold_result = "unset"
    /\ call = NoCall
    /\ ret = <<>>

\* what an Env action leaves alone
envframe == <<current_message, iteration, outcome, invoked, events,
              verification_results, llm_calls, recovery, abandoned, fold_result,
              call, ret, test_history, threads, final_report>>

\* AndroidEnvWrapper.reset
EnvReset ==
    /\ wrapper' = [wrapper EXCEPT !.current_observation = <<InitialObservation>>,
                                  !.step_count = 0]
    /\ step_result' = <<[fn |-> "reset", raised |-> "none",
                         response |-> InitialObservation]>>
    /\ UNCHANGED envframe

\* AndroidEnvWrapper.step(action): step_count is incremented first and stays
\* incremented when _get_updated_observation raises
EnvStep(action) ==
    /\ wrapper.step_count < MaxSteps
    /\ LET count == wrapper.step_count + 1
           result == ExecuteMockAction(action, count)
           updated == GetUpdatedObservation(action, wrapper.current_observation, count)
       IN  IF updated.raised # "none"
           THEN /\ wrapper' = [wrapper EXCEPT !.step_count = count]
                /\ step_result' = <<[fn |-> "step", action |-> action,
                                     before |-> wrapper.current_observation,
                                     raised |-> updated.raised]>>
           ELSE /\ wrapper' = [wrapper EXCEPT !.current_observation = <<updated.observation>>,
                                              !.step_count = count]
                /\ step_result' =
                       <<[fn |-> "step", action |-> action,
                          before |-> wrapper.current_observation,
                          raised |-> "none",
                          response |-> [observation |-> updated.observation,
                                        action_result |-> result,
                                        done |-> \/ CheckTaskCompletion(wrapper.task_name, count)
                                                 \/ count >= WrapperMaxSteps,
                                        step_count |-> count,
                                        max_steps |-> WrapperMaxSteps]]>>
    /\ UNCHANGED envframe

EnvStepPlain == \E action \in PlainActions : EnvStep(action)

EnvStepPointed == \E action \in PointedActions : EnvStep(action)

EnvNext ==
    \/ EnvReset
    \/ EnvStepPlain
    \/ EnvStepPointed

EnvSpec == EnvInit /\ [][EnvNext]_vars

(***************************************************************************)
(* run_test's routing on its own: the agents are collaborators whose       *)
(* process() may answer with a message to any recipient, and run_test      *)
(* routes whatever it is handed (current_message = response)               *)
(***************************************************************************)
\* the recipients run_test has an agent for
KnownAgents == {"PlannerAgent", "ExecutorAgent", "VerifierAgent", "SupervisorAgent"}

\* the messages a process() call may answer with: to an agent, to "System"
\* with a report, or to a recipient run_test has no branch for
RoutedMessagePool ==
    { SendMessage("ExecutorAgent", "VerifierAgent", "verify_execution", [results |-> <<>>]),
      SendMessage("VerifierAgent", "ExecutorAgent", "execute_plan", [plan |-> <<>>]),
      SendMessage("SupervisorAgent", "System", "test_report",
                  [report |-> [overall_status |-> "PASSED", passed_steps |-> 0,
                               total_steps |-> 0, bugs_found |-> <<>>],
                   improvements |-> <<>>]),
      SendMessage("VerifierAgent", "ReporterAgent", "test_completed",
                  [verification_results |-> <<>>, overall_status |-> "PASSED"]) }

\* what a routing step leaves alone
routeframe == <<verification_results, llm_calls, recovery, abandoned, fold_result,
                call, ret, objvars>>

\* one of the four agent branches: the agent's answer becomes current_message
RouteAgent ==
    \E agent \in KnownAgents, response \in RoutedMessagePool :
        /\ Routes(agent)
        /\ current_message' = response
        /\ UNCHANGED <<outcome, events, routeframe>>

\* the "System" branch: _handle_final_report, then break; run_test prints
\* "Test execution finished!" and returns None
RouteSystem ==
    /\ outcome = "running"
    /\ iteration < MaxIterations
    /\ current_message.recipient = "System"
    /\ iteration' = iteration + 1
    /\ events' = Append(events, [kind |-> "_handle_final_report",
                                 content |-> current_message.content])
    /\ outcome' = "None"
    /\ UNCHANGED <<current_message, invoked, routeframe>>

\* the else branch: print "Unknown recipient: ...", then break; run_test
\* prints "Test execution finished!" and returns None
RouteUnknown ==
    /\ outcome = "running"
    /\ iteration < MaxIterations
    /\ current_message.recipient \notin KnownAgents \cup {"System"}
    /\ iteration' = iteration + 1
    /\ outcome' = "None"
    /\ UNCHANGED <<current_message, invoked, events, routeframe>>

RouteNext ==
    \/ RouteAgent
    \/ RouteSystem
    \/ RouteUnknown
    \/ LoopEnds

RouteSpec == Init /\ [][RouteNext]_vars

(***************************************************************************)
(* Properties                                                              *)
(***************************************************************************)
LastInvoked == IF invoked = <<>> THEN "nobody" ELSE invoked[Len(invoked)]

StatusAt(results, i) == Get(results[i], "status", "UNKNOWN")

\* C1: the overall status of any list of verification statuses is
\* BUG_DETECTED if some status is BUG_DETECTED, else FAILED if some status is
\* FAILED, else PASSED if all are PASSED, else PARTIAL_PASS.
C1_OverallStatusPrecedence ==
    fold_result # "unset" =>
        LET n == Len(verification_results)
            some(st) == \E i \in 1..n : StatusAt(verification_results, i) = st
        IN  /\ some("BUG_DETECTED") => fold_result = "BUG_DETECTED"
            /\ ~some("BUG_DETECTED") /\ some("FAILED") => fold_result = "FAILED"
            /\ (\A i \in 1..n : StatusAt(verification_results, i) = "PASSED")
                  => fold_result = "PASSED"
            /\ /\ ~some("BUG_DETECTED")
               /\ ~some("FAILED")
               /\ \E i \in 1..n : StatusAt(verification_results, i) # "PASSED"
               => fold_result = "PARTIAL_PASS"

\* a list with FAILED before BUG_DETECTED has been folded to BUG_DETECTED
C1_Witness ==
    /\ fold_result = "BUG_DETECTED"
    /\ Len(verification_results) >= 2
    /\ StatusAt(verification_results, 1) = "FAILED"

\* the replanning trigger as the specification words it
Trigger(results) ==
    \E i \in 1..Len(results) :
        \/ Get(results[i], "needs_replanning", FALSE) = TRUE
        \/ /\ StatusAt(results, i) = "FAILED"
           /\ Get(results[i], "confidence", 0) > ReplanConfidence

\* C2: once the Verifier has verified an execution, the message in hand is
\* replan_needed for the Planner if the replanning trigger holds of the
\* verification results, and test_completed for the Supervisor if not.
C2_RoutesByTrigger ==
    LastInvoked = "VerifierAgent" =>
        IF Trigger(verification_results)
        THEN /\ current_message.recipient = "PlannerAgent"
             /\ current_message.message_type = "replan_needed"
        ELSE /\ current_message.recipient = "SupervisorAgent"
             /\ current_message.message_type = "test_completed"

\* this step is a call of VerifierAgent.process
VerifierActs ==
    /\ Len(invoked') = Len(invoked) + 1
    /\ invoked'[Len(invoked')] = "VerifierAgent"

\* C3: every result with success = false is verified as FAILED with
\* needs_replanning = true, and the judgment strategy is not called for it.
C3_FailedExecutionForcesReplan ==
    [][VerifierActs =>
          \A n \in 1..Len(current_message.content.results) :
              ~current_message.content.results[n].success =>
                  /\ n <= Len(verification_results')
                  /\ StatusAt(verification_results', n) = "FAILED"
                  /\ Get(verification_results'[n], "needs_replanning", FALSE) = TRUE
                  /\ (n - 1) \notin llm_calls']_vars

\* the Verifier has verified a failed step and a step it asked the strategy about
C3_Witness ==
    /\ LastInvoked = "VerifierAgent"
    /\ llm_calls # {}
    /\ \E n \in 1..Len(verification_results) :
          /\ "needs_replanning" \in DOMAIN verification_results[n]
          /\ (n - 1) \notin llm_calls

HasFallback(step) == "fallback" \in DOMAIN step /\ step.fallback # <<>>

\* the Executor has returned the results of a plan
Executed ==
    /\ current_message.message_type = "verify_execution"
    /\ current_message.sender = "ExecutorAgent"

\* C4: the results _execute_plan returns are those of the plan's steps in plan
\* order up to and including the first failed step without a fallback, or of
\* all steps when there is none; a failed step with a fallback does not end
\* the execution.
C4_StopsAtFirstFailureWithoutFallback ==
    Executed =>
        LET plan == current_message.content.plan
            results == current_message.content.results
            stops(i) == ~results[i].success /\ ~HasFallback(plan[i])
        IN  /\ Len(results) <= Len(plan)
            /\ \A i \in 1..Len(results) : results[i].step = plan[i]
            /\ \A i \in 1..Len(results) : stops(i) => i = Len(results)
            /\ Len(results) < Len(plan) => Len(results) >= 1 /\ stops(Len(results))

\* a plan was cut short: its first step failed without a fallback and the
\* second step has no result
C4_Witness ==
    /\ Executed
    /\ Len(current_message.content.plan) = 2
    /\ Len(current_message.content.results) = 1
    /\ ~current_message.content.results[1].success

\* the run went round Planner, Executor and Verifier only
Cyclic == \A i \in 1..Len(invoked) :
              invoked[i] \in {"PlannerAgent", "ExecutorAgent", "VerifierAgent"}

\* C5: a run that goes round Verifier, Planner and Executor without a terminal
\* message stops after exactly MaxIterations iterations and reports
\* BudgetExhausted.
C5_BudgetExhaustedReported ==
    (outcome \notin ({"running"} \cup Exceptions) /\ Cyclic) =>
        /\ iteration = MaxIterations
        /\ Len(invoked) = MaxIterations
        /\ outcome = "BudgetExhausted"

C7_ReplanCarriesLastFailure ==
    (LastInvoked = "VerifierAgent" /\ Trigger(verification_results)) =>
        LET last == verification_results[Len(verification_results)]
        IN  /\ current_message.message_type = "replan_needed"
            /\ current_message.recipient = "PlannerAgent"
            /\ current_message.content.current_state = last.current_state
            /\ "error" \in DOMAIN last
            /\ current_message.content.error = last.error

\* C8 as claimed: the driver gets the action of a step only after the step
\* before it has been verified.
C8_VerifiedBeforeNextAction ==
    \A i \in 1..Len(events) :
        (events[i].kind = "act" /\ events[i].step > 1) =>
            \E j \in 1..(i - 1) :
                events[j].kind = "verify" /\ events[j].step = events[i].step - 1

\* C8 as amended: a plan is executed before any of its steps is verified (no
\* observation or driver action follows a verification of the same plan), its
\* steps are verified in plan order, and the driver never gets two actions
\* without an observation between them: each action follows the observation
\* of its own step.
C8_ExecutedThenVerified ==
    /\ \A i, j \in 1..Len(events) :
          (events[i].kind = "verify" /\ events[j].kind # "verify") => j < i
    /\ \A i, j \in 1..Len(events) :
          (events[i].kind = "verify" /\ events[j].kind = "verify" /\ i < j)
             => events[i].step < events[j].step
    /\ \A i \in 1..Len(events) :
          events[i].kind = "act" =>
             /\ i > 1
             /\ events[i - 1] = [kind |-> "observe", step |-> events[i].step]

\* two steps of a plan were executed with a driver action each, and then verified
C8_Witness ==
    /\ \E i, j \in 1..Len(events) :
          /\ events[i].kind = "act"
          /\ events[j].kind = "act"
          /\ events[i].step < events[j].step
    /\ \E i \in 1..Len(events) : events[i].kind = "verify"

\* C9: after a replanning request the next message is execute_plan with the
\* plan _adapt_plan returned, and what the Executor then executes are that
\* plan's steps, in order, and nothing else: no step the abandoned plan had
\* left is run.
C9_RecoveryReplacesPlan ==
    recovery # <<>> =>
        /\ current_message.message_type \in {"execute_plan", "verify_execution"}
        /\ current_message.content.plan = recovery[1]
        /\ current_message.message_type = "verify_execution" =>
              LET results == current_message.content.results
              IN  /\ Len(results) <= Len(recovery[1])
                  /\ \A i \in 1..Len(results) : results[i].step = recovery[1][i]
        /\ Len(invoked) >= 2
        /\ \/ /\ LastInvoked = "PlannerAgent"
              /\ invoked[Len(invoked) - 1] = "VerifierAgent"
           \/ /\ LastInvoked = "ExecutorAgent"
              /\ invoked[Len(invoked) - 1] = "PlannerAgent"
              /\ invoked[Len(invoked) - 2] = "VerifierAgent"

\* a plan was abandoned with steps left, and the Executor has run the
\* recovery plan
C9_Witness ==
    /\ recovery # <<>>
    /\ abandoned > 0
    /\ Executed
    /\ Len(current_message.content.results) > 0

\* the Planner has answered create_plan
PlanCreated ==
    /\ current_message.message_type = "execute_plan"
    /\ "is_recovery" \notin DOMAIN current_message.content

\* C10: the plan the Planner creates for a goal has at least one step, and
\* every step of it has a non-empty target and a non-empty expected outcome.
C10_CreatedPlanWellFormed ==
    PlanCreated =>
        LET plan == current_message.content.plan
        IN  /\ Len(plan) >= 1
            /\ \A i \in 1..Len(plan) :
                  /\ plan[i].target # <<>>
                  /\ plan[i].verification # <<>>

\* C11: when the language model's answer cannot be parsed, or parses to an
\* empty result, _create_test_plan returns the built-in template plan.
C11_EmptyResultFallsBack ==
    (call.fn = "_create_test_plan" /\ ret # <<>>) =>
        LET response == call.response
            unusable == IF response.parses THEN response.value = <<>> ELSE TRUE
        IN  unusable => ret[1] = DefaultWifiTestPlan

\* C12: the built-in replan returns between 1 and 3 recovery steps, and the
\* target of every recovery step is one of go_back, go_home, dismiss_blocker.
\* The built-in steps are those of replan, and those of _adapt_plan when the
\* language model's answer supplies none.
C12_RecoveryVocabulary ==
    LET vocabulary == { <<"g","o","_","b","a","c","k">>, <<"g","o","_","h","o","m","e">>, <<"d","i","s","m","i","s","s","_","b","l","o","c","k","e","r">> }
        short(steps) == Len(steps) >= 1 /\ Len(steps) <= 3
    IN  /\ (call.fn = "replan" /\ ret # <<>>) =>
              /\ short(ret[1])
              /\ \A i \in 1..Len(ret[1]) : ret[1][i].action \in vocabulary
        /\ (call.fn = "_adapt_plan" /\ ret # <<>> /\ ~call.response.parses) =>
              /\ short(ret[1])
              /\ \A i \in 1..Len(ret[1]) : ret[1][i].target \in vocabulary

\* C13: when no element of the snapshot matches, _analyze_subgoal returns an
\* action for a navigation or touch step all the same, and one it plans by
\* coordinates has those of the fallback table; None is returned only when
\* the table has no entry (it has one for every action: its last branch).
C13_FallbackInsteadOfNotFound ==
    (call.fn = "_analyze_subgoal" /\ ret # <<>>
        /\ Get(call.ui_state, "ui_elements", <<>>) = <<>>
        /\ Get(call.subgoal, "action_type", <<>>) \in { <<"n","a","v","i","g","a","t","i","o","n">>, <<"t","o","u","c","h">> }) =>
        LET action == Lower(Get(call.subgoal, "action", <<>>))
            description == Lower(Get(call.subgoal, "description", <<>>))
            action_plan == ret[1]
        IN  /\ action_plan # <<>>
            /\ action_plan[1].action_type = "touch" =>
                  action_plan[1] = GetFallbackCoordinates(action, description)

\* C14: a touch action returned for a step has both coordinates, and they
\* are non-negative and inside the screen of the snapshot it was resolved on
\* (for _analyze_subgoal of multi_agent_qa and for _execute_tap alike).
C14_CoordinatesOnScreen ==
    LET onScreen(point, screen) ==
            /\ Len(point) = 2
            /\ point[1] >= 0 /\ point[2] >= 0
            /\ "screen_width" \in DOMAIN screen => point[1] < screen.screen_width
            /\ "screen_height" \in DOMAIN screen => point[2] < screen.screen_height
    IN  /\ (call.fn = "_analyze_subgoal" /\ ret # <<>> /\ ret[1] # <<>>
               /\ ret[1][1].action_type = "touch") =>
              /\ "coordinates" \in DOMAIN ret[1][1]
              /\ onScreen(ret[1][1].coordinates, call.ui_state)
        /\ (call.fn = "_execute_tap" /\ ret # <<>>) =>
              \A a \in 1..Len(ret[1].actions) :
                  onScreen(ret[1].actions[a].coordinate, call.observation)

\* C15: for an element with bounds (l, t, r, b), l < r and t < b, the tap
\* point is x = floor((l+r)/2), y = floor((t+b)/2), and it lies inside the
\* bounds (l <= x < r, t <= y < b); for _get_element_center of
\* multi_agent_qa and for the point _execute_tap sends to the driver.
C15_TapPointIsMidpoint ==
    LET isFloorOfHalf(x, n) == 2 * x <= n /\ n < 2 * x + 2
        midpoint(point, bounds) ==
            (Len(bounds) = 4 /\ bounds[1] < bounds[3] /\ bounds[2] < bounds[4]) =>
                /\ Len(point) = 2
                /\ isFloorOfHalf(point[1], bounds[1] + bounds[3])
                /\ isFloorOfHalf(point[2], bounds[2] + bounds[4])
                /\ bounds[1] <= point[1] /\ point[1] < bounds[3]
                /\ bounds[2] <= point[2] /\ point[2] < bounds[4]
    IN  /\ (call.fn = "_get_element_center" /\ ret # <<>>) =>
              midpoint(ret[1], call.element.bounds)
        /\ (call.fn = "_execute_tap" /\ ret # <<>>
               /\ "bounds" \in DOMAIN call.observation.ui_tree
               /\ call.target = S_OK) =>
              LET bounds == call.observation.ui_tree.bounds
              IN  (Len(bounds) = 4 /\ bounds[1] < bounds[3] /\ bounds[2] < bounds[4]) =>
                      /\ ret[1].success
                      /\ Len(ret[1].actions) = 1
                      /\ midpoint(ret[1].actions[1].coordinate, bounds)
                      /\ ret[1].details.tapped_at = ret[1].actions[1].coordinate

\* one of the two functions has returned the point of an element whose
\* bounds have an odd negative sum
C15_Witness ==
    /\ ret # <<>>
    /\ \/ /\ call.fn = "_get_element_center"
          /\ call.element.bounds = <<0 - 2, 0 - 2, 0 - 1, 1>>
          /\ ret[1] = <<0 - 2, 0 - 1>>
       \/ /\ call.fn = "_execute_tap"
          /\ call.target = S_OK
          /\ "bounds" \in DOMAIN call.observation.ui_tree
          /\ call.observation.ui_tree.bounds = <<0 - 2, 0 - 2, 0 - 1, 1>>
          /\ ret[1].success

\* C16: a scroll step uses no element matching: for every target and
\* snapshot _execute_scroll hands exactly one swipe to the driver, from
\* (width div 2, 3*height div 4) to (width div 2, height div 4) with duration
\* 500, and reports success; the screen's content does not change the answer.
\* A snapshot without a size counts as 1080 x 1920.
C16_ScrollIsOneFixedSwipe ==
    (call.fn = "_execute_scroll" /\ ret # <<>>) =>
        LET width == Get(call.observation, "screen_width", 1080)
            height == Get(call.observation, "screen_height", 1920)
            isQuotient(q, n, d) == d * q <= n /\ n < d * q + d
            result == ret[1]
        IN  /\ result.success
            /\ Len(result.actions) = 1
            /\ LET swipe == result.actions[1]
               IN  /\ swipe.action_type = "swipe"
                   /\ Len(swipe.start_coordinate) = 2 /\ Len(swipe.end_coordinate) = 2
                   /\ isQuotient(swipe.start_coordinate[1], width, 2)
                   /\ isQuotient(swipe.start_coordinate[2], 3 * height, 4)
                   /\ isQuotient(swipe.end_coordinate[1], width, 2)
                   /\ isQuotient(swipe.end_coordinate[2], height, 4)
                   /\ swipe.duration = 500
            /\ \A tree \in TreePool, target \in ScrollTargetPool :
                   ExecuteScroll(target, [call.observation EXCEPT !.ui_tree = tree]) = result

\* a scroll whose target is nowhere on a screen of odd size has returned
C16_Witness ==
    /\ call.fn = "_execute_scroll"
    /\ ret # <<>>
    /\ FindUiElement(call.target, call.observation.ui_tree) = <<>>
    /\ Get(call.observation, "screen_width", 0) = 1081
    /\ Get(call.observation, "screen_height", 0) = 1921
    /\ ret[1].success
    /\ ret[1].actions[1].start_coordinate = <<540, 1440>>
    /\ ret[1].actions[1].end_coordinate = <<540, 480>>

\* C17: when no element is found for a step and there is no coordinate
\* fallback, the Executor does not raise: the step's result has success
\* false and the error "Could not find element: <target>", and no action is
\* handed to the driver (for _execute_tap, and for execute_subgoal of
\* multi_agent_qa when _analyze_subgoal returns None).
C17_GroundingFailureRecorded ==
    LET notFound(target) == <<"C","o","u","l","d"," ","n","o","t"," ","f","i","n","d"," ","e","l","e","m","e","n","t",":"," ">> \o target
    IN  /\ (call.fn = "_execute_tap" /\ ret # <<>>
               /\ FindUiElement(call.target, call.observation.ui_tree) = <<>>) =>
              /\ ~ret[1].success
              /\ ret[1].details = [error |-> notFound(call.target)]
              /\ ret[1].actions = <<>>
        /\ (call.fn = "execute_subgoal" /\ ret # <<>>
               /\ "description" \in DOMAIN call.subgoal
               /\ AnalyzeSubgoal(call.subgoal,
                                 GetCurrentUiState(call.current_observation)) = <<>>) =>
              /\ ret[1].raised = "none"
              /\ ret[1].driver = <<>>
              /\ ~ret[1].result.success
              /\ Get(ret[1].result, "error", <<>>)
                     = notFound(Get(call.subgoal, "action", <<>>))

\* C18: for an expectation that matches neither pattern family (it contains
\* none of "visible", "open", "on", "off"), _heuristic_verification returns
\* FAILED with confidence 0.3; it returns PASSED only for an expectation of a
\* family, and only when the text extracted from the screen is not empty.
C18_UnrecognisedExpectationFails ==
    (call.fn = "_heuristic_verification" /\ ret # <<>>) =>
        LET has(word) == Contains(word, Lower(call.expected))
            screenFamily == has(<<"v","i","s","i","b","l","e">>) \/ has(<<"o","p","e","n">>)
            toggleFamily == has(<<"o","n">>) \/ has(<<"o","f","f">>)
            verdict == ret[1]
        IN  /\ verdict.status \in {"PASSED", "FAILED"}
            /\ ~(screenFamily \/ toggleFamily) =>
                  /\ verdict.status = "FAILED"
                  /\ Get(verdict, "confidence", 0) = HeuristicConfidence
            /\ verdict.status = "FAILED" =>
                  Get(verdict, "confidence", 0) = HeuristicConfidence
            /\ verdict.status = "PASSED" =>
                  /\ screenFamily \/ toggleFamily
                  /\ ExtractAllText(call.ui_tree) # <<>>

\* the heuristic has answered for "Home screen", an expectation of neither
\* family, on a screen that shows the text "Home"
C18_Witness ==
    /\ call.fn = "_heuristic_verification"
    /\ ret # <<>>
    /\ call.expected = <<"H","o","m","e"," ","s","c","r","e","e","n">>
    /\ call.ui_tree = TreeHome
    /\ ret[1].status = "FAILED"

\* C19: the snapshot in the result of an executed step is taken after the
\* step's action: the observation of a step, the only one its result can
\* carry, follows every action the driver got for that step.
C19_SnapshotAfterAction ==
    \A a \in 1..Len(events) :
        events[a].kind = "act" =>
            \E o \in (a + 1)..Len(events) :
                events[o] = [kind |-> "observe", step |-> events[a].step]

\* C20: for every wait step the Executor reaches, whatever its target text,
\* nothing is raised, the driver gets no action, and the step's result is a
\* success.
C20_WaitAlwaysSucceeds ==
    (/\ current_message.message_type \in {"execute_plan", "verify_execution"}
     /\ "plan" \in DOMAIN current_message.content) =>
        LET plan == current_message.content.plan
        IN  \A o \in 1..Len(events) :
                (/\ events[o].kind = "observe"
                 /\ events[o].step <= Len(plan)
                 /\ plan[events[o].step].action = <<"w","a","i","t">>) =>
                    /\ outcome \notin {"ValueError", "IndexError"}
                    /\ \A a \in 1..Len(events) :
                           ~(events[a].kind = "act" /\ events[a].step = events[o].step)
                    /\ current_message.message_type = "verify_execution" =>
                           /\ events[o].step <= Len(current_message.content.results)
                           /\ current_message.content.results[events[o].step].success

\* C21: the result of a step reflects the driver's answer to its action:
\* success is true iff the driver reported success, and when the driver
\* reports a failure the result is a failure that carries the driver's error
\* (for execute_subgoal of multi_agent_qa and for _execute_tap).
C21_ResultReflectsDriver ==
    LET reported(answer) == Get(Get(answer, "action_result", <<>>), "success", FALSE)
        driverError(answer) == Get(Get(answer, "action_result", <<>>), "error", <<>>)
    IN  /\ (call.fn = "execute_subgoal" /\ ret # <<>> /\ ret[1].raised = "none"
               /\ ret[1].driver # <<>> /\ ~call.step.raises) =>
              /\ ret[1].result.success <=> reported(call.step.env_result)
              /\ ~reported(call.step.env_result) =>
                     Contains(driverError(call.step.env_result),
                              Get(ret[1].result, "error", <<>>))
        /\ (call.fn = "_execute_tap" /\ ret # <<>> /\ "driver" \in DOMAIN call
               /\ ret[1].actions # <<>>) =>
              /\ ret[1].success <=> reported(call.driver)
              /\ ~reported(call.driver) =>
                     Contains(driverError(call.driver), Get(ret[1].details, "error", <<>>))

\* C22: an answer of the language model that does not parse is not an
\* error: the Planner returns its built-in plan and the Verifier the
\* heuristic verification; an answer that parses is what the caller
\* returns (the Verifier's verdict is then the language model's).
C22_ParsedJudgmentIsUsed ==
    ret # <<>> =>
        /\ call.fn = "_create_test_plan" =>
              ret[1] = IF call.response.parses THEN call.response.value
                       ELSE DefaultWifiTestPlan
        /\ call.fn = "_adapt_plan" =>
              ret[1] = IF call.response.parses THEN call.response.value
                       ELSE SimpleRecoveryPlan
        /\ call.fn = "_verify_step_outcome" =>
              ret[1] = IF call.response.parses THEN call.response.value
                       ELSE HeuristicVerification(call.expected, call.ui_tree)

\* C23: a run of the goal with the built-in plan and the heuristic verifier
\* ends with a report; its overall status is PASSED when the screen showed
\* what every step expects (switch on for the first five steps, off after
\* the second toggle), and otherwise FAILED.
C23_DefaultPlanRunReports ==
    /\ current_message.message_type = "test_completed" =>
          LET results == current_message.content.verification_results
          IN  (/\ Len(results) = Len(DefaultWifiTestPlan)
               /\ \A i \in 1..5 : results[i].current_state = TreeWifiOn
               /\ results[6].current_state = TreeWifiOff) =>
                  current_message.content.overall_status = "PASSED"
    /\ (outcome # "running" /\ SeqHas(invoked, "SupervisorAgent")) =>
          /\ outcome = "None"
          /\ current_message.message_type = "test_report"
          /\ current_message.content.report.overall_status \in {"PASSED", "FAILED"}

\* C24: the overall status does not depend on the order of the results: it
\* is the same for every permutation of the list.
C24_FoldOrderIndependent ==
    fold_result # "unset" =>
        LET n == Len(verification_results)
            permutations == {f \in [1..n -> 1..n] : \A i, j \in 1..n : f[i] = f[j] => i = j}
        IN  \A f \in permutations :
                DetermineOverallStatus([i \in 1..n |-> verification_results[f[i]]])
                    = fold_result

\* a list of three different statuses with FAILED before BUG_DETECTED was folded
C24_Witness ==
    /\ fold_result # "unset"
    /\ Len(verification_results) = 3
    /\ StatusAt(verification_results, 1) = "PASSED"
    /\ StatusAt(verification_results, 2) = "FAILED"
    /\ StatusAt(verification_results, 3) = "BUG_DETECTED"

\* C25: replacing one PASSED by BUG_DETECTED in a non-empty list of PASSED
\* only turns the overall status from PASSED into BUG_DETECTED; and in any
\* list, replacing one status by BUG_DETECTED never gives an overall status
\* of lower severity (BUG_DETECTED > FAILED > PARTIAL_PASS, PASSED).
C25_BugReplacementRaisesSeverity ==
    fold_result # "unset" =>
        LET n == Len(verification_results)
            severity(st) == IF st = "BUG_DETECTED" THEN 3
                            ELSE IF st = "FAILED" THEN 2 ELSE 1
            replaced(i) == [verification_results EXCEPT
                               ![i] = [status |-> "BUG_DETECTED"] @@ @]
            passedOnly == \A i \in 1..n : StatusAt(verification_results, i) = "PASSED"
        IN  \A i \in 1..n :
                /\ severity(DetermineOverallStatus(replaced(i))) >= severity(fold_result)
                /\ passedOnly =>
                      /\ fold_result = "PASSED"
                      /\ DetermineOverallStatus(replaced(i)) = "BUG_DETECTED"

\* a list of PASSED only, of two results or more, was folded to PASSED
C25_Witness ==
    /\ fold_result = "PASSED"
    /\ Len(verification_results) >= 2
    /\ \A i \in 1..Len(verification_results) :
           StatusAt(verification_results, i) = "PASSED"

\* C26: when the threads of several runs have all finished their process()
\* call on one shared SupervisorAgent, test_history holds exactly one report
\* per run that delivered "test_completed", each with that run's overall
\* status, and the counters of generate_final_report agree with those runs.
C26_ConcurrentAppendsSerialized ==
    (threads # <<>> /\ \A t \in DOMAIN threads : threads[t].pc = "done") =>
        LET completed == {t \in DOMAIN threads :
                            threads[t].message.message_type = "test_completed"}
            n == Len(test_history)
        IN  /\ n = Cardinality(completed)
            /\ \E f \in [1..n -> completed] :
                  /\ \A i, j \in 1..n : f[i] = f[j] => i = j
                  /\ \A i \in 1..n : test_history[i].overall_status
                                        = threads[f[i]].message.content.overall_status
            /\ completed # {} =>
                  LET summary == GenerateFinalReport(test_history)
                  IN  /\ summary.total_tests_run = Cardinality(completed)
                      /\ summary.pass_rate.num =
                            Cardinality({t \in completed :
                                threads[t].message.content.overall_status = "PASSED"})

\* C27: _generate_test_report returns a report that keeps overall_status,
\* lists as bugs_found the results with status BUG_DETECTED in their order,
\* and counts total_steps, passed_steps and failed_steps, so that
\* passed_steps + failed_steps + |bugs_found| <= total_steps.
C27_ReportKeepsVerifierResults ==
    (call.fn = "_generate_test_report" /\ ret # <<>>) =>
        /\ ret[1].raised = "none"
        /\ LET report == ret[1].report
               results == call.test_data.verification_results
               count(st) == Cardinality({i \in 1..Len(results) : results[i].status = st})
               isBug(r) == r.status = "BUG_DETECTED"
           IN  /\ report.overall_status = call.test_data.overall_status
               /\ report.bugs_found = SelectSeq(results, isBug)
               /\ report.total_steps = Len(results)
               /\ report.passed_steps = count("PASSED")
               /\ report.failed_steps = count("FAILED")
               /\ report.passed_steps + report.failed_steps + Len(report.bugs_found)
                      <= report.total_steps

\* C28: test_history holds one report per processed "test_completed"
\* message; the summary generate_final_report returns has total_tests_run =
\* the length of its history, a pass_rate between 0 and 1 and total_bugs_found
\* = the sum of the reports' bug counts, and is the error value when the
\* history is empty.
C28_HistoryGrowsPerProcessedRun ==
    LET processed == {t \in DOMAIN threads :
                        /\ threads[t].pc = "done"
                        /\ threads[t].message.message_type = "test_completed"}
    IN  /\ Len(test_history) = Cardinality(processed)
        /\ final_report # <<>> =>
              LET summary == final_report[1]
              IN  IF "error" \in DOMAIN summary
                  THEN /\ summary = [error |-> <<"N","o"," ","t","e","s","t","s"," ","h","a","v","e"," ","b","e","e","n"," ","r","u","n"," ","y","e","t">>]
                       /\ processed = {}
                  ELSE /\ summary.total_tests_run = Len(summary.test_history)
                       /\ summary.pass_rate.den = summary.total_tests_run
                       /\ summary.pass_rate.num \in 0..summary.pass_rate.den
                       /\ summary.total_bugs_found >= 0

\* C29: a screenshot action has no side effect on the UI state: in every
\* state of the wrapper, step() with action_type "screenshot" succeeds,
\* reports ui_changed = false and returns an observation whose ui_elements
\* and activity_info are those of the observation before the call.
C29_ScreenshotLeavesUiState ==
    (/\ step_result # <<>>
     /\ step_result[1].fn = "step"
     /\ Lower(step_result[1].action.action_type) = <<"s","c","r","e","e","n","s","h","o","t">>) =>
        /\ step_result[1].raised = "none"
        /\ step_result[1].response.action_result.success
        /\ ~step_result[1].response.action_result.ui_changed
        /\ step_result[1].before # <<>>
        /\ step_result[1].response.observation.ui_elements
               = step_result[1].before[1].ui_elements
        /\ step_result[1].response.observation.activity_info
               = step_result[1].before[1].activity_info

\* C30: a message to a recipient that is none of the known roles ends the
\* run abnormally: the loop stops without invoking an agent for it, no final
\* report is handled, and what run_test hands back differs from the None of a
\* run that completed.
C30_UnknownRecipientSurfaced ==
    (/\ outcome # "running"
     /\ current_message.recipient \notin KnownAgents \cup {"System"}
     /\ Len(invoked) < iteration) =>
        /\ Len(invoked) = iteration - 1
        /\ \A i \in 1..Len(events) : events[i].kind # "_handle_final_report"
        /\ outcome # "None"

C32_GroundingFirstMatch ==
    /\ (call.fn = "_find_element_by_criteria" /\ ret # <<>>) =>
          LET elements == Get(call.ui_state, "ui_elements", <<>>)
              criteria == call.criteria_list
              sat(e, c) == ElementMatchesCriterion(elements[e], criteria[c])
              satisfied == {c \in 1..Len(criteria) : \E e \in 1..Len(elements) : sat(e, c)}
          IN  /\ ret[1] = <<>> <=> satisfied = {}
              /\ satisfied # {} =>
                    \E e \in 1..Len(elements), c \in satisfied :
                        /\ ret[1] = <<elements[e]>>
                        /\ sat(e, c)
                        /\ \A d \in satisfied : c <= d
                        /\ \A f \in 1..Len(elements) : sat(f, c) => e <= f
    /\ (call.fn = "_analyze_subgoal" /\ ret # <<>> /\ ret[1] # <<>>
           /\ "target_element" \in DOMAIN ret[1][1]
           /\ Lower(Get(call.subgoal, "action_type", <<>>)) = <<"t","o","u","c","h">>) =>
          LET keywords == TargetKeywords(Lower(Get(call.subgoal, "action", <<>>)),
                                         Lower(Get(call.subgoal, "description", <<>>)))
              elements == Get(call.ui_state, "ui_elements", <<>>)
              inText(element) == \E k \in 1..Len(keywords) :
                                    Contains(keywords[k], Lower(Get(element, "text", <<>>)))
          IN  (\E e \in 1..Len(elements) : inText(elements[e])) =>
                  inText(ret[1][1].target_element)

\* the search has returned the third element of test_executor_agent's
\* screen, for the criterion "toggle" in the text, although the second
\* element satisfies the later criterion "wifi" in the text
C32_Witness ==
    /\ call.fn = "_find_element_by_criteria"
    /\ ret # <<>>
    /\ call.ui_state = UiMock
    /\ call.criteria_list = << [text_contains |-> <<"t","o","g","g","l","e">>], [text_contains |-> <<"w","i","f","i">>] >>
    /\ ret[1] = <<UiMock.ui_elements[3]>>

\* the nodes of a tree in depth-first pre-order, each with its depth
RECURSIVE PreOrder(_, _)
RECURSIVE PreOrderAll(_, _)
PreOrder(node, depth) ==
    <<[node |-> node, depth |-> depth]>> \o PreOrderAll(Get(node, "children", <<>>), depth + 1)

PreOrderAll(children, depth) ==
    IF children = <<>> THEN <<>>
    ELSE PreOrder(Head(children), depth) \o PreOrderAll(Tail(children), depth)

\* C33: parse_ui_tree returns the elements of the tree in depth-first
\* pre-order, an element being listed exactly when its text, content-desc or
\* resource-id is not empty, whatever its ancestors are and however deep it
\* lies.
C33_FlattenPreOrder ==
    (call.fn = "parse_ui_tree" /\ ret # <<>>) =>
        LET identified(n) ==
                \/ Get(n.node, "text", <<>>) # <<>>
                \/ Get(n.node, "content_desc", <<>>) # <<>>
                \/ Get(n.node, "resource_id", <<>>) # <<>>
            expected == SelectSeq(PreOrder(call.ui_tree, 0), identified)
        IN  /\ Len(ret[1]) = Len(expected)
            /\ \A i \in 1..Len(expected) :
                  /\ ret[1][i].depth = expected[i].depth
                  /\ ret[1][i].text = Get(expected[i].node, "text", <<>>)
                  /\ ret[1][i].content_desc = Get(expected[i].node, "content_desc", <<>>)
                  /\ ret[1][i].resource_id = Get(expected[i].node, "resource_id", <<>>)

\* C34: for an expectation that contains "visible" or "open",
\* _heuristic_verification returns PASSED exactly when the remaining keywords
\* of the expectation (what is left after removing "visible" and "open") are
\* found in the lower-cased text of the tree, texts and content-descs alike,
\* and FAILED with confidence 0.3 otherwise; with no remaining keyword it
\* does not return PASSED.
C34_PresenceCheckFindsKeywords ==
    (/\ call.fn = "_heuristic_verification"
     /\ ret # <<>>
     /\ \/ Contains(S_visible, Lower(call.expected))
        \/ Contains(S_open, Lower(call.expected))) =>
        LET keywords == Split(Strip(Remove(Remove(Lower(call.expected), S_visible), S_open)))
            ui_text == Lower(ExtractAllText(call.ui_tree))
            found == /\ keywords # <<>>
                     /\ \A k \in 1..Len(keywords) : Contains(keywords[k], ui_text)
        IN  /\ ret[1].status = "PASSED" <=> found
            /\ ~found => /\ ret[1].status = "FAILED"
                         /\ Get(ret[1], "confidence", 0) = HeuristicConfidence

\* C35: for an expectation that contains "on" or "off" and neither "visible"
\* nor "open", _heuristic_verification returns PASSED exactly when the word
\* "on" (for an expectation with "on"), respectively "off", is one of the
\* words of the lower-cased text of the tree; letters inside another word do
\* not count.
C35_ToggleCheckLiteralWord ==
    (/\ call.fn = "_heuristic_verification"
     /\ ret # <<>>
     /\ ~Contains(S_visible, Lower(call.expected))
     /\ ~Contains(S_open, Lower(call.expected))
     /\ \/ Contains(S_on, Lower(call.expected))
        \/ Contains(S_off, Lower(call.expected))) =>
        LET words == Split(Lower(ExtractAllText(call.ui_tree)))
            shows(word) == \E k \in 1..Len(words) : words[k] = word
        IN  ret[1].status = "PASSED" <=>
                \/ Contains(S_on, Lower(call.expected)) /\ shows(S_on)
                \/ Contains(S_off, Lower(call.expected)) /\ shows(S_off)

\* C36: the messages of a run follow goal -> plan -> execution results ->
\* verification results -> (report | replan): whenever run_test invokes an
\* agent, the agent returns a message whose sender it is; create_plan and
\* replan_needed are answered by execute_plan to the Executor, execute_plan
\* by verify_execution to the Verifier, verify_execution by replan_needed to
\* the Planner or test_completed to the Supervisor, and test_completed by
\* test_report to System.
C36_MessageFlow ==
    [][invoked' # invoked =>
          LET asked == current_message.message_type
              answer == current_message'
              is(message_type, recipient) ==
                  answer.message_type = message_type /\ answer.recipient = recipient
          IN  /\ outcome' = "running"
              /\ answer # current_message
              /\ answer.sender = invoked'[Len(invoked')]
              /\ asked \in {"create_plan", "replan_needed"} =>
                    is("execute_plan", "ExecutorAgent")
              /\ asked = "execute_plan" => is("verify_execution", "VerifierAgent")
              /\ asked = "verify_execution" =>
                    \/ is("replan_needed", "PlannerAgent")
                    \/ is("test_completed", "SupervisorAgent")
              /\ asked = "test_completed" => is("test_report", "System")]_vars

\* C37: when the executed plan had no steps, the list of verification
\* results is empty, _needs_replanning is false and _determine_overall_status
\* is PASSED: the Verifier sends test_completed with overall status PASSED,
\* and the run is reported as PASSED with zero steps.
C37_EmptyPlanReportedPassed ==
    /\ (LastInvoked = "VerifierAgent" /\ outcome = "running"
           /\ verification_results = <<>>) =>
          /\ ~NeedsReplanning(verification_results)
          /\ current_message.message_type = "test_completed"
          /\ current_message.recipient = "SupervisorAgent"
          /\ current_message.content.overall_status = "PASSED"
    /\ (LastInvoked = "SupervisorAgent" /\ verification_results = <<>>) =>
          /\ outcome \in {"running", "None"}
          /\ current_message.message_type = "test_report"
          /\ current_message.content.report.overall_status = "PASSED"
          /\ current_message.content.report.total_steps = 0

\* C38: with the cap of 10 iterations, a run without replanning reaches the
\* "System" branch of run_test at iteration 5 and a run with one replanning
\* round at iteration 8; a run with two or more replanning rounds never
\* reaches it.
C38_SinkIterations ==
    LET rounds == Cardinality({i \in 1..Len(invoked) :
                                  i > 1 /\ invoked[i] = "PlannerAgent"})
        supervised == SeqHas(invoked, "SupervisorAgent")
    IN  /\ rounds >= 2 => current_message.recipient # "System"
        /\ (outcome # "running" /\ supervised /\ rounds = 0) =>
              /\ current_message.recipient = "System"
              /\ iteration = 5
        /\ (outcome # "running" /\ supervised /\ rounds = 1) =>
              /\ current_message.recipient = "System"
              /\ iteration = 8

\* C39: every replan_needed message has original_goal = None, and neither the
\* content of an execute_plan message nor that of a verify_execution message
\* carries the goal of the create_plan message.
C39_ReplanHasNoGoal ==
    /\ current_message.message_type = "replan_needed" =>
          current_message.content.original_goal = NoneVal
    /\ current_message.message_type \in {"execute_plan", "verify_execution"} =>
          {"goal", "original_goal"} \cap DOMAIN current_message.content = {}

\* a replanning request of the Verifier is in flight to the Planner
C39_Witness ==
    /\ current_message.message_type = "replan_needed"
    /\ current_message.sender = "VerifierAgent"
    /\ current_message.recipient = "PlannerAgent"
    /\ SeqHas(invoked, "ExecutorAgent")

\* the action types _execute_mock_action knows
KnownActionTypes == {<<"t","o","u","c","h">>, <<"t","y","p","e">>, <<"b","a","c","k">>, <<"h","o","m","e">>, <<"s","c","r","e","e","n","s","h","o","t">>}

\* what C40 says of a call of the wrapper that takes it from step_count =
\* before to the state (after, last), last being what the call returned or
\* raised
StepCountAndDone(before, after, last) ==
    /\ last.fn = "reset" => after.step_count = 0
    /\ last.fn = "step" =>
          /\ after.step_count = before + 1
          /\ last.raised = "none" =>
                 /\ last.response.step_count = after.step_count
                 /\ last.response.done <=>
                        IF after.task_name = "settings_wifi"
                        THEN after.step_count >= 8 ELSE after.step_count >= 50
          /\ Lower(Get(last.action, "action_type", <<>>)) \notin KnownActionTypes =>
                 /\ last.raised = "none"
                 /\ last.response.action_result.success = FALSE
                 /\ "error" \in DOMAIN last.response.action_result
                 /\ last.response.action_result.ui_changed = FALSE

\* C40: step_count is 0 after reset and grows by exactly 1 on every step
\* call; step reports done = true iff step_count >= 8 for task settings_wifi,
\* or step_count >= 50 for another task, so that done stays true until the
\* next reset; a step with an action type other than touch, type, back, home
\* and screenshot returns success = false with an error and ui_changed = false.
C40_StepCountAndDone ==
    [][ /\ StepCountAndDone(wrapper.step_count, wrapper', step_result'[1])
        /\ ( /\ step_result # <<>>
             /\ step_result[1].fn = "step"
             /\ step_result[1].raised = "none"
             /\ step_result[1].response.done
             /\ step_result'[1].fn = "step"
             /\ step_result'[1].raised = "none" ) =>
                 step_result'[1].response.done ]_vars

====
